---- MODULE Spec2Model ----
(***************************************************************************)
(* Verification model of the resilient multi-source acquisition subsystem  *)
(* of brazil-property-api:                                                 *)
(*   - the HTTP resilience client  (src/scrapers/base_scraper.py)          *)
(*   - the sliding-window rate limiter and the API key manager             *)
(*     (src/security/rate_limiting.py, src/security/middleware.py)         *)
(*   - the acquisition coordinator (src/scrapers/coordinator.py,           *)
(*     src/scrapers/fast_scraper.py)                                       *)
(* Each component has its own specification over the shared variables; a   *)
(* specification pins the variables of the other components.               *)
(***************************************************************************)
EXTENDS Integers, Sequences, FiniteSets, TLC

VARIABLES
    \* ---- HTTP resilience client (BaseScraper) ----
    max_retries,      \* BaseScraper.max_retries
    r_pc,             \* position of the current make_request call / how it ended
    attempt,          \* loop variable of _retry_request
    timeout_count,    \* local timeout_count of _retry_request
    trace,            \* outcomes of the transport invocations of the current call
    backoffs,         \* exponential backoff sleeps of the current call
    scraper_stats,    \* BaseScraper.stats: requests_made, errors_count
    calls_started,    \* number of make_request calls begun so far
    \* ---- rate limiter / quota manager (RateLimiter, APIKeyManager) ----
    now,              \* the clock read by datetime.utcnow(), in ticks
    requests,         \* RateLimiter._requests: (ip, endpoint) -> timestamps
    endpoint_limits,  \* RateLimiter._endpoint_limits: endpoint -> limit
    default_limit,    \* RateLimiter.default_limit
    recorded,         \* every timestamp handed to record_request since the
                      \* last reset_limits of its key, pruned or not
    \* ---- API key manager and security middleware ----
    usage_timestamps, \* APIKeyManager._usage_timestamps: (key, endpoint) -> timestamps
    usage_count,      \* APIKeyManager._usage: (key, endpoint) -> count
    inflight,         \* requests between _before_request and _after_request
    mw_done,          \* the request whose handling completed last
    n_requests,       \* number of requests received so far
    \* ---- acquisition coordinator (ScraperCoordinator) ----
    scrapers,         \* ScraperCoordinator.scrapers: the adapters initialised
    fast_scrapers,    \* ScraperCoordinator.fast_scrapers: the fast adapters
    cache,            \* the search results held by the cache: key -> list
    stats,            \* ScraperCoordinator.stats
    requests_made,    \* stats['requests_made'] of each adapter
    call,             \* the call that returned last: arguments, what it did
                      \* and what it returned
    n_calls,          \* number of calls made so far
    \* ---- remove_duplicates applied to one list ----
    properties,       \* the argument of remove_duplicates
    unique_properties, \* what it returned
    dedup_pc,         \* "ready" before the call, "returned" after it
    \* ---- _generate_cache_key applied to two queries ----
    ck_params,        \* the two search_params dictionaries, as lists of
                      \* (field, value) in insertion order
    ck_enabled,       \* enabled_scrapers of the two coordinators
    ck_keys,          \* the two keys returned
    ck_pc,            \* "ready" before the calls, "returned" after them
    \* ---- ScraperCoordinator.close ----
    closed,           \* the resources whose close() has run to its end
    close_log,        \* the last call of close(): what it invoked, whether
                      \* it raised
    close_calls,      \* number of calls of close() so far
    \* ---- the dispatch step of scrape_properties (_scrape_parallel,
    \* ---- _scrape_sequential), one adapter call at a time ----
    sp_pc,            \* "idle", "collecting" (inside the dispatch), "returned"
    sp_parallel,      \* the parallel argument of the call
    sp_futures,       \* each adapter's call: not started, running, never
                      \* completing, returned, raised, or taken by the loop
    all_properties,   \* the adapters whose records the loop has collected
    sp_calls          \* number of dispatches begun so far

retryVars == <<max_retries, r_pc, attempt, timeout_count, trace, backoffs,
               scraper_stats, calls_started>>

limVars == <<now, requests, endpoint_limits, default_limit, recorded>>

mwVars == <<usage_timestamps, usage_count, inflight, mw_done, n_requests>>

coordVars == <<scrapers, fast_scrapers, cache, stats, requests_made, call,
               n_calls>>

dedupVars == <<properties, unique_properties, dedup_pc>>

keyVars == <<ck_params, ck_enabled, ck_keys, ck_pc>>

closeVars == <<closed, close_log, close_calls>>

dispatchVars == <<sp_pc, sp_parallel, sp_futures, all_properties, sp_calls>>

vars == <<retryVars, limVars, mwVars, coordVars, dedupVars, keyVars,
          closeVars, dispatchVars>>

\* What the operations of one component leave alone: the other components.
RetryFrame ==
    UNCHANGED <<limVars, mwVars, coordVars, dedupVars, keyVars, closeVars,
               dispatchVars>>
LimiterFrame ==
    UNCHANGED <<retryVars, mwVars, coordVars, dedupVars, keyVars, closeVars,
               dispatchVars>>
MiddlewareFrame ==
    UNCHANGED <<retryVars, coordVars, dedupVars, keyVars, closeVars,
               dispatchVars>>
DedupFrame ==
    UNCHANGED <<retryVars, limVars, mwVars, coordVars, keyVars, closeVars,
               dispatchVars>>
CoordFrame ==
    UNCHANGED <<retryVars, limVars, mwVars, dedupVars, keyVars, closeVars,
               dispatchVars>>
KeyFrame ==
    UNCHANGED <<retryVars, limVars, mwVars, coordVars, dedupVars, closeVars,
               dispatchVars>>
CloseFrame ==
    UNCHANGED <<retryVars, limVars, mwVars, coordVars, dedupVars, keyVars,
               dispatchVars>>
DispatchFrame ==
    UNCHANGED <<retryVars, limVars, mwVars, coordVars, dedupVars, keyVars,
               closeVars>>

(***************************************************************************)
(*                      HTTP RESILIENCE CLIENT                             *)
(***************************************************************************)

\* Largest max_retries explored (BaseScraper sets 5, the tests use 3).
MaxRetriesBound == 5
\* Number of make_request calls made on one scraper.
MaxCalls == 2

\* What one invocation of the transport (session.get inside _make_request)
\* can produce.
TransportOutcomes == {"ok", "timeout", "conn", "s429", "s403", "s4xx"}
NetworkFailures == {"timeout", "conn"}

RetryEnded == {"returned", "ScraperTimeoutError", "ScraperConnectionError",
               "ScraperRateLimitError", "ScraperBlockedError"}

\* for attempt in range(self.max_retries)
RetryLimitOffByOne(m) == m + 1
RetryLimit(m) == m

\* The error _retry_request raises once the loop is exhausted.
FinalErrorAnyTimeout(tc, m) ==
    IF tc >= 1 THEN "ScraperTimeoutError" ELSE "ScraperConnectionError"
FinalError(tc, m) ==
    IF tc = m THEN "ScraperTimeoutError" ELSE "ScraperConnectionError"

\* The responses _make_request turns into an exception.
StatusFailures == {"s429", "s403", "s4xx"}

\* Where a status failure leaves the call, taken to be the retry loop.
StatusErrorRetried(outcome) == "running"
\* Where a status failure leaves the call: the exception is none of those
\* _retry_request catches, so it leaves the loop, and make_request raises
\* it again (HTTPError of raise_for_status as ScraperConnectionError).
StatusError(outcome) ==
    CASE outcome = "s429" -> "ScraperRateLimitError"
      [] outcome = "s403" -> "ScraperBlockedError"
      [] OTHER -> "ScraperConnectionError"

RetryInit ==
    /\ max_retries \in 1..MaxRetriesBound
    /\ r_pc = "idle"
    /\ attempt = 0
    /\ timeout_count = 0
    /\ trace = <<>>
    /\ backoffs = 0
    /\ scraper_stats = [requests_made |-> 0, errors_count |-> 0]
    /\ calls_started = 0

\* make_request up to the first loop iteration of _retry_request.
MakeRequest ==
    /\ r_pc \in RetryEnded \cup {"idle"}
    /\ calls_started < MaxCalls
    /\ r_pc' = "running"
    /\ attempt' = 0
    /\ timeout_count' = 0
    /\ trace' = <<>>
    /\ backoffs' = 0
    /\ calls_started' = calls_started + 1
    /\ UNCHANGED <<max_retries, scraper_stats>>
    /\ RetryFrame

\* One iteration of the retry loop: the backoff sleep (attempt > 0), the
\* transport invocation through _make_request, and the handling of what it
\* produced.  Status errors and other exceptions leave _retry_request at
\* once and are counted by make_request's handlers.
Attempt(outcome) ==
    /\ r_pc = "running"
    /\ attempt < RetryLimit(max_retries)
    /\ backoffs' = IF attempt > 0 THEN backoffs + 1 ELSE backoffs
    /\ trace' = Append(trace, outcome)
    /\ CASE outcome = "ok" ->
              /\ r_pc' = "returned"
              /\ scraper_stats' = [scraper_stats EXCEPT
                                     !.requests_made = @ + 1]
              /\ UNCHANGED <<attempt, timeout_count>>
         [] outcome = "timeout" ->
              /\ r_pc' = "running"
              /\ timeout_count' = timeout_count + 1
              /\ attempt' = attempt + 1
              /\ scraper_stats' = [scraper_stats EXCEPT
                                     !.requests_made = @ + 1,
                                     !.errors_count = @ + 1]
         [] outcome = "conn" ->
              /\ r_pc' = "running"
              /\ attempt' = attempt + 1
              /\ scraper_stats' = [scraper_stats EXCEPT
                                     !.requests_made = @ + 1,
                                     !.errors_count = @ + 1]
              /\ UNCHANGED timeout_count
         [] outcome \in StatusFailures ->
              /\ r_pc' = StatusError(outcome)
              /\ scraper_stats' = [scraper_stats EXCEPT
                                     !.requests_made = @ + 1,
                                     !.errors_count = @ + 1]
              /\ UNCHANGED <<attempt, timeout_count>>
    /\ UNCHANGED <<max_retries, calls_started>>
    /\ RetryFrame

\* The loop is exhausted: _retry_request raises, make_request counts the
\* error and re-raises.
Exhaust ==
    /\ r_pc = "running"
    /\ attempt >= RetryLimit(max_retries)
    /\ r_pc' = FinalError(timeout_count, max_retries)
    /\ scraper_stats' = [scraper_stats EXCEPT !.errors_count = @ + 1]
    /\ UNCHANGED <<max_retries, attempt, timeout_count, trace, backoffs,
                   calls_started>>
    /\ RetryFrame

RetryNext ==
    \/ MakeRequest
    \/ \E o \in TransportOutcomes : Attempt(o)
    \/ Exhaust

(***************************************************************************)
(* Properties of the HTTP resilience client                                *)
(***************************************************************************)

OnlyNetworkFailures == \A i \in 1..Len(trace) : trace[i] \in NetworkFailures
AllTimedOut == \A i \in 1..Len(trace) : trace[i] = "timeout"
AllConnFailed == \A i \in 1..Len(trace) : trace[i] = "conn"
SomeTimedOut == \E i \in 1..Len(trace) : trace[i] = "timeout"

\* The call ended because the retry budget ran out.
Exhausted ==
    /\ r_pc \in {"ScraperTimeoutError", "ScraperConnectionError"}
    /\ OnlyNetworkFailures

\* C3: retry termination.  The transport is never invoked more than
\* max_retries times; a call whose every attempt failed with a timeout or a
\* connection error ends after exactly max_retries invocations by raising,
\* ScraperTimeoutError if all attempts timed out and ScraperConnectionError
\* if all were connection failures; a call whose k-th attempt succeeds
\* invoked the transport exactly k times (k-1 failures, then the success)
\* and returns.
RetryTermination ==
    /\ Len(trace) <= max_retries
    /\ (r_pc = "running" /\ Len(trace) = max_retries => attempt = max_retries)
    /\ (Exhausted =>
          /\ Len(trace) = max_retries
          /\ (AllTimedOut => r_pc = "ScraperTimeoutError")
          /\ (AllConnFailed => r_pc = "ScraperConnectionError"))
    /\ (r_pc = "returned" =>
          /\ Len(trace) \in 1..max_retries
          /\ trace[Len(trace)] = "ok"
          /\ \A i \in 1..(Len(trace) - 1) : trace[i] \in NetworkFailures)

\* C3 witness: three attempts of three timed out and the call raised
\* ScraperTimeoutError.
RetryTerminationWitness ==
    /\ max_retries = 3
    /\ r_pc = "ScraperTimeoutError"
    /\ trace = <<"timeout", "timeout", "timeout">>

\* C10 as stated: once the budget is exhausted the error is
\* ScraperTimeoutError as soon as any attempt timed out.
TimeoutWinsAcrossRetries ==
    Exhausted => (r_pc = "ScraperTimeoutError" <=> SomeTimedOut)

\* C10 amended: once the budget is exhausted the error is
\* ScraperTimeoutError exactly when every attempt timed out, and
\* ScraperConnectionError as soon as one attempt was a connection failure.
TimeoutOnlyWhenAllTimedOut ==
    Exhausted => (r_pc = "ScraperTimeoutError" <=> AllTimedOut)

\* C10 witness: a budget exhausted by a mix of timeouts and connection
\* failures ended in ScraperConnectionError.
MixedFailureWitness ==
    /\ Exhausted
    /\ SomeTimedOut
    /\ ~AllTimedOut
    /\ Len(trace) = max_retries
    /\ r_pc = "ScraperConnectionError"

\* C11: a response with status 429, 403 or another status of 400 or more
\* ends the call at that attempt: it is the last invocation of the
\* transport, no backoff sleep follows it, and the call has raised
\* ScraperRateLimitError for 429, ScraperBlockedError for 403 and
\* ScraperConnectionError for the others.
StatusFailureTerminal ==
    \A i \in 1..Len(trace) :
        trace[i] \in StatusFailures =>
            /\ i = Len(trace)
            /\ backoffs = i - 1
            /\ (trace[i] = "s429" => r_pc = "ScraperRateLimitError")
            /\ (trace[i] = "s403" => r_pc = "ScraperBlockedError")
            /\ (trace[i] = "s4xx" => r_pc = "ScraperConnectionError")

\* C11 witness: a timeout, then a 429 on the second of three attempts
\* allowed, and the call raised ScraperRateLimitError.
StatusFailureTerminalWitness ==
    /\ max_retries = 3
    /\ trace = <<"timeout", "s429">>
    /\ r_pc = "ScraperRateLimitError"

\* The step is an invocation of the transport.
TransportInvoked == Len(trace') = Len(trace) + 1
\* The step ends a make_request call by raising.
FailsTerminally == r_pc = "running" /\ r_pc' \in RetryEnded \ {"returned"}

\* C27: requests_made counts the invocations of the transport and
\* errors_count the make_request calls that ended by raising: an attempt
\* that fails and is retried, and a call that returns a response, leave
\* errors_count as it was, and a call that raises adds exactly one.
ErrorsCountTerminalFailures ==
    [][/\ scraper_stats'.requests_made =
             scraper_stats.requests_made + (IF TransportInvoked THEN 1 ELSE 0)
       /\ scraper_stats'.errors_count =
             scraper_stats.errors_count + (IF FailsTerminally THEN 1 ELSE 0)
      ]_vars

(***************************************************************************)
(*                 RATE LIMITER (sliding one-hour window)                  *)
(***************************************************************************)

\* timedelta(hours=1), in clock ticks (one tick is half an hour).
Hour == 2
\* The clock runs from 0 to MaxTime.
MaxTime == 2
\* Number of record_request calls explored.
MaxRecords == 2
\* Largest limit handed to set_endpoint_limit.
MaxLimit == 1

\* RATE_LIMIT_EXEMPT_IPS default.
ExemptIps == {"127.0.0.1", "::1"}
Clients == {"127.0.0.1", "192.168.1.1"}
\* An endpoint _setup_endpoint_limits configures and one it does not.
SearchEndpoint == "/api/v1/search"
CustomEndpoint == "/api/v1/custom"
Endpoints == {SearchEndpoint, CustomEndpoint}
\* Endpoints served behind the security middleware: two rate-limited ones
\* and one that _should_skip_rate_limiting exempts.
AnalysisEndpoint == "/api/v1/market-analysis"
HealthEndpoint == "/health"
MwEndpoints == {SearchEndpoint, AnalysisEndpoint, HealthEndpoint}
\* What "request.endpoint or request.path" is for a request that matched
\* the market-analysis route: the name of its view inside the nested
\* blueprints.  The URL path is used only when no route matched.
RoutedAnalysisEndpoint == "api_v1.market_analysis.get_market_analysis"
RoutedEndpoints == {RoutedAnalysisEndpoint}
\* The URL path of a request, by the endpoint the middleware sees.
RequestPath(e) == IF e = RoutedAnalysisEndpoint THEN AnalysisEndpoint ELSE e
AllEndpoints == Endpoints \cup MwEndpoints \cup RoutedEndpoints
WindowKeys == Clients \X AllEndpoints
\* The endpoint has no entry in _endpoint_limits.
NoLimit == -1

\* Limit strings of the configuration, as <<rate, period>>.
LimitConfigs == {<<1, "hour">>, <<48, "day">>}

\* RateLimiter._parse_limit: requests per hour.
ParseLimit(cfg) ==
    CASE cfg[2] = "sec" -> cfg[1] * 3600
      [] cfg[2] = "min" -> cfg[1] * 60
      [] cfg[2] = "hour" -> cfg[1]
      [] cfg[2] = "day" -> cfg[1] \div 24
      [] OTHER -> cfg[1]

\* RateLimiter._clean_old_requests: keep what is newer than the cutoff.
CleanOldInclusive(ts, t) == SelectSeq(ts, LAMBDA r : r >= t - Hour)
CleanOld(ts, t) == SelectSeq(ts, LAMBDA r : r > t - Hour)

\* RateLimiter.is_exempt
IsExempt(ip) == ip \in ExemptIps

\* RateLimiter.get_endpoint_limit: _endpoint_limits.get(endpoint, default).
GetEndpointLimitZeroIsUnset(e) ==
    IF endpoint_limits[e] > 0 THEN endpoint_limits[e] ELSE default_limit
GetEndpointLimit(e) ==
    IF endpoint_limits[e] # NoLimit THEN endpoint_limits[e] ELSE default_limit

\* RateLimiter._get_current_usage: the value returned (the pruning it does
\* is the effect of the actions below).
CurrentUsage(ip, e) == Len(CleanOld(requests[<<ip, e>>], now))

\* RateLimiter.get_remaining_requests
RemainingRequests(ip, e) ==
    LET left == GetEndpointLimit(e) - CurrentUsage(ip, e)
    IN  IF left > 0 THEN left ELSE 0

\* RateLimiter.is_allowed: the value returned.
IsAllowedValueInclusive(ip, e) ==
    IsExempt(ip) \/ CurrentUsage(ip, e) <= GetEndpointLimit(e)
IsAllowedValue(ip, e) ==
    IsExempt(ip) \/ CurrentUsage(ip, e) < GetEndpointLimit(e)

LimiterInit ==
    /\ now = 0
    /\ requests = [k \in WindowKeys |-> <<>>]
    /\ \E d \in LimitConfigs, s \in LimitConfigs :
          /\ default_limit = ParseLimit(d)
          /\ endpoint_limits = [e \in AllEndpoints |->
                                  CASE e = SearchEndpoint -> ParseLimit(s)
                                    [] e = AnalysisEndpoint -> ParseLimit(s)
                                    [] OTHER -> NoLimit]
    /\ recorded = [k \in WindowKeys |-> <<>>]

TotalRecorded ==
    LET RECURSIVE Sum(_)
        Sum(ks) == IF ks = {} THEN 0
                   ELSE LET k == CHOOSE x \in ks : TRUE
                        IN  Len(recorded[k]) + Sum(ks \ {k})
    IN  Sum(WindowKeys)

\* Time passes.
Tick ==
    /\ now < MaxTime
    /\ now' = now + 1
    /\ UNCHANGED <<requests, endpoint_limits, default_limit, recorded>>
    /\ LimiterFrame

\* RateLimiter.record_request(ip, endpoint, timestamp): append, then prune.
\* A caller passes the current time (the default) or a time gone by.
RecordRequest(ip, e, ts) ==
    /\ TotalRecorded < MaxRecords
    /\ ts <= now
    /\ requests' = [requests EXCEPT
                      ![<<ip, e>>] = CleanOld(Append(@, ts), now)]
    /\ recorded' = [recorded EXCEPT ![<<ip, e>>] = Append(@, ts)]
    /\ UNCHANGED <<now, endpoint_limits, default_limit>>
    /\ LimiterFrame

\* RateLimiter.is_allowed(ip, endpoint): exempt clients return at once, for
\* the others reading the usage prunes the window.
IsAllowed(ip, e) ==
    /\ requests' = IF IsExempt(ip) THEN requests
                   ELSE [requests EXCEPT ![<<ip, e>>] = CleanOld(@, now)]
    /\ UNCHANGED <<now, endpoint_limits, default_limit, recorded>>
    /\ LimiterFrame

\* RateLimiter.get_current_usage / get_remaining_requests: prune and count.
GetCurrentUsage(ip, e) ==
    /\ requests' = [requests EXCEPT ![<<ip, e>>] = CleanOld(@, now)]
    /\ UNCHANGED <<now, endpoint_limits, default_limit, recorded>>
    /\ LimiterFrame

\* RateLimiter.set_endpoint_limit
SetEndpointLimit(e, limit) ==
    /\ endpoint_limits' = [endpoint_limits EXCEPT ![e] = limit]
    /\ UNCHANGED <<now, requests, default_limit, recorded>>
    /\ LimiterFrame

\* RateLimiter.reset_limits(ip, endpoint) and reset_limits(ip)
ResetLimits(ip, es) ==
    /\ requests' = [k \in WindowKeys |->
                      IF k[1] = ip /\ k[2] \in es THEN <<>> ELSE requests[k]]
    /\ recorded' = [k \in WindowKeys |->
                      IF k[1] = ip /\ k[2] \in es THEN <<>> ELSE recorded[k]]
    /\ UNCHANGED <<now, endpoint_limits, default_limit>>
    /\ LimiterFrame

LimiterNext ==
    \/ Tick
    \/ \E ip \in Clients, e \in Endpoints, ts \in 0..MaxTime :
          RecordRequest(ip, e, ts)
    \/ \E ip \in Clients, e \in Endpoints : IsAllowed(ip, e)
    \/ \E ip \in Clients, e \in Endpoints : GetCurrentUsage(ip, e)
    \/ \E e \in Endpoints, l \in 0..MaxLimit : SetEndpointLimit(e, l)
    \/ \E ip \in Clients, es \in {{SearchEndpoint}, {CustomEndpoint}, Endpoints} :
          ResetLimits(ip, es)

(***************************************************************************)
(* Properties of the rate limiter                                          *)
(***************************************************************************)

\* Number of timestamps recorded for (ip, e) that lie in the trailing hour,
\* counted on the full record of record_request calls.
InWindow(ip, e) ==
    Cardinality({i \in 1..Len(recorded[<<ip, e>>]) :
                    now < recorded[<<ip, e>>][i] + Hour})

\* The earliest timestamp recorded for (ip, e).
FirstRecorded(ip, e) ==
    LET ts == recorded[<<ip, e>>]
    IN  CHOOSE t \in {ts[i] : i \in 1..Len(ts)} :
            \A i \in 1..Len(ts) : t <= ts[i]

\* C4: sliding window.  A timestamp t recorded for (client, endpoint) counts
\* toward the current usage and the remaining requests at every time before
\* t + 1 hour and at no time from t + 1 hour on (so one recorded more than
\* an hour in the past never counts); and when as many requests as the
\* limit have been recorded, is_allowed is false exactly until one hour has
\* passed since the earliest of them.
SlidingWindow ==
    \A ip \in Clients, e \in Endpoints :
        /\ CurrentUsage(ip, e) = InWindow(ip, e)
        /\ RemainingRequests(ip, e) =
              IF GetEndpointLimit(e) > InWindow(ip, e)
              THEN GetEndpointLimit(e) - InWindow(ip, e) ELSE 0
        /\ (/\ ~IsExempt(ip)
            /\ Len(recorded[<<ip, e>>]) > 0
            /\ Len(recorded[<<ip, e>>]) = GetEndpointLimit(e))
           => (IsAllowedValue(ip, e) <=> now >= FirstRecorded(ip, e) + Hour)

\* C4 witness: two requests recorded against a limit of two, the first one
\* exactly one hour old: it no longer counts and the client is allowed.
SlidingWindowWitness ==
    \E ip \in Clients, e \in Endpoints :
        /\ ~IsExempt(ip)
        /\ GetEndpointLimit(e) = 2
        /\ Len(recorded[<<ip, e>>]) = 2
        /\ recorded[<<ip, e>>][1] + Hour = now
        /\ recorded[<<ip, e>>][2] + Hour > now
        /\ CurrentUsage(ip, e) = 1
        /\ IsAllowedValue(ip, e)

\* C5: admission rule.  is_allowed is true for every exempt client whatever
\* its usage; for any other client it is true exactly when the number of
\* its requests for the endpoint in the trailing hour is strictly below the
\* endpoint's limit: the entry of _endpoint_limits (configured or set by
\* set_endpoint_limit, zero included) if there is one, the default if not.
AdmissionRule ==
    \A ip \in Clients, e \in Endpoints :
        LET limit == IF endpoint_limits[e] = NoLimit THEN default_limit
                     ELSE endpoint_limits[e]
        IN  IsAllowedValue(ip, e) <=>
               (ip \in ExemptIps \/ InWindow(ip, e) < limit)

\* C5 witness: an exempt client at or over a limit is still allowed while
\* another client that reached the same endpoint's limit is refused.
AdmissionRuleWitness ==
    \E e \in Endpoints :
        /\ GetEndpointLimit(e) > 0
        /\ InWindow("127.0.0.1", e) >= GetEndpointLimit(e)
        /\ IsAllowedValue("127.0.0.1", e)
        /\ InWindow("192.168.1.1", e) = GetEndpointLimit(e)
        /\ ~IsAllowedValue("192.168.1.1", e)

\* min(requests)
Oldest(ts) ==
    CHOOSE t \in {ts[i] : i \in 1..Len(ts)} : \A i \in 1..Len(ts) : t <= ts[i]

\* RateLimiter.get_reset_time: the list is read as it stands, without
\* _clean_old_requests.
GetResetTime(ip, e) ==
    IF requests[<<ip, e>>] = <<>> THEN now
    ELSE Oldest(requests[<<ip, e>>]) + Hour

\* C26: get_reset_time returns the oldest timestamp that is still inside
\* the trailing hour plus one hour, and the current time when none is,
\* whatever was recorded before; get_remaining_requests returns
\* max(0, limit - number of timestamps inside the trailing hour).
ResetTimeFromWindow ==
    \A ip \in Clients, e \in Endpoints :
        LET surviving == CleanOld(recorded[<<ip, e>>], now)
        IN  /\ GetResetTime(ip, e) =
                  IF surviving = <<>> THEN now ELSE Oldest(surviving) + Hour
            /\ RemainingRequests(ip, e) =
                  IF GetEndpointLimit(e) > Len(surviving)
                  THEN GetEndpointLimit(e) - Len(surviving) ELSE 0

(***************************************************************************)
(*                API KEY MANAGER AND SECURITY MIDDLEWARE                  *)
(***************************************************************************)

\* Number of requests received.
MaxRequests == 2
\* Number of requests handled at the same time.
MaxInFlight == 1

\* The API_KEYS configuration: the two keys of the tests, with small limits.
ApiKeyConfig ==
    [k \in {"valid_key_123", "limited_key_456"} |->
        IF k = "valid_key_123"
        THEN [rate_limit |-> <<2, "hour">>,
              permissions |-> {"search", "analysis", "history"}]
        ELSE [rate_limit |-> <<1, "hour">>,
              permissions |-> {"search"}]]
ValidKeys == DOMAIN ApiKeyConfig
\* extract_api_key found no key.
NoKey == "none"
\* What a request can present as its key.
PresentedKeys == {NoKey, "invalid_key", "limited_key_456"}
\* The remote addresses of the requests.
MwClients == {"192.168.1.1"}
UsageKeys == ValidKeys \X (MwEndpoints \cup RoutedEndpoints)

\* Failures of a request that are unrelated to quota: a body larger than
\* validate_request_size accepts (checked before the quota), a parameter
\* _validate_request_parameters refuses (checked after it).
Hazards == {"none", "too_large", "bad_params"}

MwOutcomes == {"admitted", "RateLimitExceeded", "InvalidAPIKey",
               "AccessDenied", "InvalidInput"}

\* APIKeyManager.is_valid_key
IsValidKey(k) == k \in ValidKeys

\* APIKeyManager._parse_limit: the rate, whatever the period.
KeyParseLimit(cfg) == cfg[1]

\* APIKeyManager.get_rate_limit
KeyRateLimit(k) ==
    IF ~IsValidKey(k) THEN 100 ELSE KeyParseLimit(ApiKeyConfig[k].rate_limit)

\* APIKeyManager.has_permission
HasPermission(k, perm) ==
    IF ~IsValidKey(k) THEN FALSE ELSE perm \in ApiKeyConfig[k].permissions

\* APIKeyManager._clean_old_usage
CleanOldUsage(ts, t) == SelectSeq(ts, LAMBDA r : r > t - Hour)

\* APIKeyManager.get_usage: the value returned.
KeyUsage(k, e) == Len(CleanOldUsage(usage_timestamps[<<k, e>>], now))

\* APIKeyManager.is_rate_limited: the value returned.
IsRateLimited(k, e) == KeyUsage(k, e) >= KeyRateLimit(k)

\* SecurityMiddleware._should_skip_rate_limiting
ShouldSkipRateLimiting(e) == e \in {HealthEndpoint}

\* SecurityMiddleware._get_required_permission ("" when the endpoint is not
\* in the permission map)
RequiredPermission(e) ==
    CASE e = SearchEndpoint -> "search"
      [] e = AnalysisEndpoint -> "analysis"
      [] OTHER -> ""

\* The test "api_key and is_valid_key(api_key)" that picks the window a
\* request is recorded in (_after_request, rate_limit_decorator).
UsesKeyQuotaNever(k) == FALSE
UsesKeyQuota(k) == k # NoKey /\ IsValidKey(k)

\* The test "if api_key: ... elif not is_allowed(...)" of _before_request:
\* the IP window is looked at only when no key was presented.
ChecksIpQuota(k) == k = NoKey

\* The effect of RateLimiter.record_request on _requests.
RecordedRequests(ip, e) ==
    [requests EXCEPT ![<<ip, e>>] = CleanOld(Append(@, now), now)]

\* The effect of APIKeyManager.record_usage on _usage_timestamps.
RecordedUsage(k, e) ==
    [usage_timestamps EXCEPT
        ![<<k, e>>] = CleanOldUsage(Append(@, now), now)]

\* The effect of reading a key's usage (get_usage prunes).
PrunedUsage(k, e) ==
    [usage_timestamps EXCEPT ![<<k, e>>] = CleanOldUsage(@, now)]

\* The effect of is_allowed on _requests.
PrunedRequests(ip, e) ==
    IF IsExempt(ip) THEN requests
    ELSE [requests EXCEPT ![<<ip, e>>] = CleanOld(@, now)]

\* How _before_request ends for a request, in the order of its checks.
BeforeOutcome(ip, k, e, hazard) ==
    CASE hazard = "too_large" -> "InvalidInput"
      [] hazard # "too_large" /\ ShouldSkipRateLimiting(e) -> "admitted"
      [] OTHER ->
         LET keyVerdict ==
                 CASE ~IsValidKey(k) -> "InvalidAPIKey"
                   [] IsValidKey(k) /\ IsRateLimited(k, e) ->
                         "RateLimitExceeded"
                   [] IsValidKey(k) /\ ~IsRateLimited(k, e)
                        /\ RequiredPermission(e) # ""
                        /\ ~HasPermission(k, RequiredPermission(e)) ->
                         "AccessDenied"
                   [] OTHER -> "passed"
             ipVerdict ==
                 IF ChecksIpQuota(k) /\ ~IsAllowedValue(ip, e)
                 THEN "RateLimitExceeded" ELSE "passed"
             verdict ==
                 IF k # NoKey /\ keyVerdict # "passed" THEN keyVerdict
                 ELSE ipVerdict
         IN  IF verdict # "passed" THEN verdict
             ELSE IF hazard = "bad_params" THEN "InvalidInput"
             ELSE "admitted"

MiddlewareInit ==
    /\ now = 0
    /\ requests = [k \in WindowKeys |-> <<>>]
    /\ \E s \in LimitConfigs :
          /\ default_limit = ParseLimit(<<48, "day">>)
          /\ endpoint_limits = [e \in AllEndpoints |->
                                  CASE e = SearchEndpoint -> ParseLimit(s)
                                    [] e = AnalysisEndpoint -> ParseLimit(s)
                                    [] OTHER -> NoLimit]
    /\ recorded = [k \in WindowKeys |-> <<>>]
    /\ usage_timestamps = [k \in UsageKeys |-> <<>>]
    /\ usage_count = [k \in UsageKeys |-> 0]
    /\ inflight = {}
    /\ mw_done = [id |-> 0]
    /\ n_requests = 0

\* SecurityMiddleware._before_request for a request from ip presenting key k
\* for endpoint e, while fewer than max_in_flight requests are being
\* handled.  The usage reads prune the window they look at.
BeforeRequestAmong(ip, k, e, hazard, max_in_flight) ==
    /\ n_requests < MaxRequests
    /\ Cardinality(inflight) < max_in_flight
    /\ n_requests' = n_requests + 1
    /\ inflight' = inflight \cup
          {[id |-> n_requests + 1, ip |-> ip, key |-> k, endpoint |-> e,
            hazard |-> hazard, via |-> "middleware",
            outcome |-> BeforeOutcome(ip, k, e, hazard)]}
    /\ IF hazard = "too_large" \/ ShouldSkipRateLimiting(e)
       THEN UNCHANGED <<requests, usage_timestamps>>
       ELSE /\ usage_timestamps' =
                  IF k # NoKey /\ IsValidKey(k) THEN PrunedUsage(k, e)
                  ELSE usage_timestamps
            /\ requests' =
                  IF ChecksIpQuota(k)
                     /\ ~(k # NoKey /\ (~IsValidKey(k) \/ IsRateLimited(k, e)
                            \/ (RequiredPermission(e) # ""
                                /\ ~HasPermission(k, RequiredPermission(e)))))
                  THEN PrunedRequests(ip, e)
                  ELSE requests
    /\ UNCHANGED <<now, endpoint_limits, default_limit, recorded,
                   usage_count, mw_done>>
    /\ MiddlewareFrame

BeforeRequest(ip, k, e, hazard) ==
    BeforeRequestAmong(ip, k, e, hazard, MaxInFlight)

\* SecurityMiddleware._after_request: Flask runs it on the response of
\* every request, the error responses of rejected requests included.
AfterRequest(id) ==
  \E r \in inflight :
    /\ r.id = id
    /\ inflight' = inflight \ {r}
    /\ mw_done' = r
    /\ IF ShouldSkipRateLimiting(r.endpoint)
       THEN UNCHANGED <<requests, recorded, usage_timestamps, usage_count>>
       ELSE IF UsesKeyQuota(r.key)
       THEN /\ usage_timestamps' = RecordedUsage(r.key, r.endpoint)
            /\ usage_count' = [usage_count EXCEPT
                                 ![<<r.key, r.endpoint>>] = @ + 1]
            /\ UNCHANGED <<requests, recorded>>
       ELSE /\ requests' = RecordedRequests(r.ip, r.endpoint)
            /\ recorded' = [recorded EXCEPT
                              ![<<r.ip, r.endpoint>>] = Append(@, now)]
            /\ UNCHANGED <<usage_timestamps, usage_count>>
    /\ UNCHANGED <<now, endpoint_limits, default_limit, n_requests>>
    /\ MiddlewareFrame

\* The wrapper of rate_limit_decorator around a view: check, and record if
\* the check passed.
DecoratedCall(ip, k, e) ==
    /\ n_requests < MaxRequests
    /\ n_requests' = n_requests + 1
    /\ IF UsesKeyQuota(k)
       THEN /\ mw_done' = [id |-> n_requests + 1, ip |-> ip, key |-> k,
                           endpoint |-> e, hazard |-> "none",
                           via |-> "decorator",
                           outcome |-> IF IsRateLimited(k, e)
                                       THEN "RateLimitExceeded"
                                       ELSE "admitted"]
            /\ usage_timestamps' = IF IsRateLimited(k, e)
                                   THEN PrunedUsage(k, e)
                                   ELSE RecordedUsage(k, e)
            /\ usage_count' = IF IsRateLimited(k, e) THEN usage_count
                              ELSE [usage_count EXCEPT ![<<k, e>>] = @ + 1]
            /\ UNCHANGED <<requests, recorded>>
       ELSE /\ mw_done' = [id |-> n_requests + 1, ip |-> ip, key |-> k,
                           endpoint |-> e, hazard |-> "none",
                           via |-> "decorator",
                           outcome |-> IF IsAllowedValue(ip, e)
                                       THEN "admitted"
                                       ELSE "RateLimitExceeded"]
            /\ requests' = IF IsAllowedValue(ip, e)
                           THEN RecordedRequests(ip, e)
                           ELSE PrunedRequests(ip, e)
            /\ recorded' = IF IsAllowedValue(ip, e)
                           THEN [recorded EXCEPT ![<<ip, e>>] = Append(@, now)]
                           ELSE recorded
            /\ UNCHANGED <<usage_timestamps, usage_count>>
    /\ UNCHANGED <<now, endpoint_limits, default_limit, inflight>>
    /\ MiddlewareFrame

MiddlewareNext ==
    \/ Tick
    \/ \E ip \in MwClients, k \in PresentedKeys, e \in MwEndpoints,
          h \in Hazards : BeforeRequest(ip, k, e, h)
    \/ \E id \in 1..MaxRequests : AfterRequest(id)
    \/ \E ip \in MwClients, k \in PresentedKeys,
          e \in MwEndpoints \ {HealthEndpoint} : DecoratedCall(ip, k, e)

\* The address a proxy header of the request names (the first of the
\* chain of X-Forwarded-For, or the value of X-Real-IP, X-Originating-IP,
\* CF-Connecting-IP or True-Client-IP), or that it has no such header.
NoHeader == "(no header)"
HeaderAddresses == {NoHeader, "127.0.0.1", "192.168.1.1"}

\* get_client_ip: the address a header names when there is one, else
\* request.remote_addr.
GetClientIp(header, remote_addr) ==
    IF header # NoHeader THEN header ELSE remote_addr

\* Requests without a key for the search endpoint, with and without a
\* proxy header, from the addresses of MwClients.
BypassNext ==
    \/ Tick
    \/ \E remote_addr \in MwClients, header \in HeaderAddresses :
          BeforeRequest(GetClientIp(header, remote_addr), NoKey,
                        SearchEndpoint, "none")
    \/ \E id \in 1..MaxRequests : AfterRequest(id)

\* Number of requests the threads of the server handle at the same time.
MaxConcurrent == 2

\* Requests without a key for the search endpoint, up to MaxConcurrent of
\* them between their check and their recording.
ConcurrentNext ==
    \/ Tick
    \/ \E ip \in MwClients :
          BeforeRequestAmong(ip, NoKey, SearchEndpoint, "none", MaxConcurrent)
    \/ \E id \in 1..MaxRequests : AfterRequest(id)

\* Requests for the market-analysis route with a configured key: the
\* routed request (GET) and the request no route matched (another method).
PermissionNext ==
    \/ Tick
    \/ \E ip \in MwClients, k \in ValidKeys,
          e \in {AnalysisEndpoint, RoutedAnalysisEndpoint},
          h \in Hazards : BeforeRequest(ip, k, e, h)
    \/ \E id \in 1..MaxRequests : AfterRequest(id)

(***************************************************************************)
(* Properties of the middleware                                            *)
(***************************************************************************)

\* The room left in a key's window and in an address's window, counted
\* from the stored timestamps.
KeyHasRoom(k, e) ==
    Cardinality({i \in DOMAIN usage_timestamps[<<k, e>>] :
                    usage_timestamps[<<k, e>>][i] > now - Hour})
        < ApiKeyConfig[k].rate_limit[1]
IpHasRoom(ip, e) ==
    \/ ip \in ExemptIps
    \/ Cardinality({i \in DOMAIN requests[<<ip, e>>] :
                       requests[<<ip, e>>][i] > now - Hour})
          < (IF endpoint_limits[e] # NoLimit THEN endpoint_limits[e]
             ELSE default_limit)

IpWindowsUntouched == requests' = requests /\ recorded' = recorded
KeyWindowsUntouched ==
    usage_timestamps' = usage_timestamps /\ usage_count' = usage_count

\* The quota check was reached: the request was not refused for its size
\* and its endpoint is rate limited.
ReachedQuotaCheck(r) ==
    r.hazard # "too_large" /\ r.endpoint # HealthEndpoint

\* The request r is decided in this step.
Decides(r) ==
    \/ r \in inflight' \ inflight
    \/ mw_done' # mw_done /\ mw_done'.via = "decorator" /\ r = mw_done'
\* The request r is recorded in this step.
Records(r) ==
    \/ r \in inflight \ inflight'
    \/ mw_done' # mw_done /\ mw_done'.via = "decorator" /\ r = mw_done'

MwRequests == inflight \cup inflight' \cup {mw_done'}

\* C6: a request that presents a valid API key is admitted or rejected on
\* the key's own usage and limit only, the room in the address's window
\* playing no part, and it is recorded only in the key's window, never in
\* an address's window.  A request without a valid key is limited by the
\* address's window only and recorded only there, never in a key's window.
QuotaPathExclusive ==
    [][\A r \in MwRequests :
          /\ (Decides(r) /\ r.key \in ValidKeys) =>
                /\ requests' = requests \/ Records(r)
                /\ ReachedQuotaCheck(r) =>
                      (r.outcome = "RateLimitExceeded"
                          <=> ~KeyHasRoom(r.key, r.endpoint))
                /\ ~ReachedQuotaCheck(r) => r.outcome # "RateLimitExceeded"
          /\ (Records(r) /\ r.key \in ValidKeys) => IpWindowsUntouched
          /\ (Decides(r) /\ r.key \notin ValidKeys) =>
                /\ KeyWindowsUntouched
                /\ r.outcome = "RateLimitExceeded" =>
                      ~IpHasRoom(r.ip, r.endpoint)
                /\ (ReachedQuotaCheck(r) /\ r.key = NoKey
                      /\ ~IpHasRoom(r.ip, r.endpoint)) =>
                      r.outcome = "RateLimitExceeded"
          /\ (Records(r) /\ r.key \notin ValidKeys) => KeyWindowsUntouched
      ]_vars

\* A request with a valid key has been through the middleware and was
\* rejected for the key's quota while the address's window had room; it
\* was recorded in the key's window and the address's window is empty.
QuotaPathExclusiveWitness ==
    /\ mw_done.id # 0
    /\ mw_done.via = "middleware"
    /\ mw_done.key \in ValidKeys
    /\ mw_done.outcome = "RateLimitExceeded"
    /\ IpHasRoom(mw_done.ip, mw_done.endpoint)
    /\ recorded[<<mw_done.ip, mw_done.endpoint>>] = <<>>
    /\ usage_count[<<mw_done.key, mw_done.endpoint>>] > 0

\* The permission the route of a finished request requires, by its path.
RoutePermission(r) == RequiredPermission(RequestPath(r.endpoint))

\* C16: a request that has been through the middleware with a valid API
\* key lacking the permission its route requires was not admitted to the
\* endpoint, whatever the key's usage.
PermissionGating ==
    (/\ mw_done.id # 0
     /\ mw_done.via = "middleware"
     /\ IsValidKey(mw_done.key)
     /\ RoutePermission(mw_done) # ""
     /\ ~HasPermission(mw_done.key, RoutePermission(mw_done)))
    => mw_done.outcome # "admitted"

\* C22: a request that ends rejected (quota exceeded, invalid key,
\* permission denied, invalid input) is charged to no window: the step
\* that completes it hands no timestamp to record_request and counts no
\* usage of a key.
OnlyAdmittedCharged ==
    [][(mw_done' # mw_done /\ mw_done'.outcome # "admitted") =>
          (recorded' = recorded /\ usage_count' = usage_count)]_vars

\* C24: the quota holds when requests are in flight together.  With a
\* limit of one request an hour no two requests of a non-exempt client
\* for an endpoint are admitted and recorded less than an hour apart: a
\* request that completes admitted while the request completed before it
\* was admitted for the same client and endpoint finds that one's
\* timestamp out of the window.
QuotaHoldsInFlight ==
    [][(/\ mw_done' # mw_done
        /\ mw_done.id # 0
        /\ mw_done.outcome = "admitted"
        /\ mw_done'.outcome = "admitted"
        /\ mw_done'.ip = mw_done.ip
        /\ mw_done'.endpoint = mw_done.endpoint
        /\ mw_done.key = NoKey /\ mw_done'.key = NoKey
        /\ ~IsExempt(mw_done.ip)
        /\ ~ShouldSkipRateLimiting(mw_done.endpoint)
        /\ GetEndpointLimit(mw_done.endpoint) = 1)
       => LET ts == recorded[<<mw_done.ip, mw_done.endpoint>>]
          IN  ts[Len(ts)] <= now - Hour]_vars

\* C21: at every moment, a request from a non-exempt address gets the
\* same admission decision whatever address its proxy headers name; a
\* header naming an exempt address does not exempt the sender.
HeadersDoNotBypass ==
    \A remote_addr \in MwClients, header \in HeaderAddresses :
       ~IsExempt(remote_addr) =>
          BeforeOutcome(GetClientIp(header, remote_addr), NoKey,
                        SearchEndpoint, "none")
            = BeforeOutcome(remote_addr, NoKey, SearchEndpoint, "none")

(***************************************************************************)
(*                 ACQUISITION COORDINATOR: THE MERGE STEP                 *)
(***************************************************************************)

\* Length of the lists handed to remove_duplicates.
MaxLen == 4

\* The site adapters, which are also the 'source' of a record.
Adapters == {"zap", "vivareal"}

\* prop.get('id') of a record that has no id (None, or an empty id).
NoId == ""
PropertyIds == {"a1", "a2", "b1", NoId}

\* A property record: the fields the coordinator reads or writes.
Property(id, source) ==
    [id |-> id, source |-> source, price |-> 1, bedrooms |-> 1,
     market_based |-> FALSE, coordinator_version |-> ""]

ScrapedRecords == {Property(id, a) : id \in PropertyIds, a \in Adapters}

RECURSIVE ListsUpTo(_, _)
ListsUpTo(S, n) ==
    IF n = 0 THEN {<<>>}
    ELSE LET shorter == ListsUpTo(S, n - 1)
         IN  shorter \cup {Append(l, x) : l \in {m \in shorter : Len(m) = n - 1},
                                           x \in S}

\* The truth value of "prop_id" in "if prop_id and ...": every record is
\* taken to carry an id.
IdIsSetAlways(prop_id) == TRUE
\* The truth value of "prop_id" in "if prop_id and ...".
IdIsSet(prop_id) == prop_id # NoId

\* The for loop of remove_duplicates from position i on, with the seen_ids
\* and unique_properties built so far.
RECURSIVE RemoveDuplicatesLoop(_, _, _, _)
RemoveDuplicatesLoop(props, i, seen_ids, unique) ==
    IF i > Len(props) THEN unique
    ELSE LET prop_id == props[i].id
         IN  IF IdIsSet(prop_id) /\ prop_id \notin seen_ids
             THEN RemoveDuplicatesLoop(props, i + 1, seen_ids \cup {prop_id},
                                       Append(unique, props[i]))
             ELSE IF ~IdIsSet(prop_id)
             THEN RemoveDuplicatesLoop(props, i + 1, seen_ids,
                                       Append(unique, props[i]))
             ELSE RemoveDuplicatesLoop(props, i + 1, seen_ids, unique)

\* remove_duplicates taken to return its argument.
RemoveDuplicatesKeepsAll(props) == props
\* ScraperCoordinator.remove_duplicates
RemoveDuplicates(props) == RemoveDuplicatesLoop(props, 1, {}, <<>>)

DedupInit ==
    /\ properties \in ListsUpTo(ScrapedRecords, MaxLen)
    /\ unique_properties = <<>>
    /\ dedup_pc = "ready"

\* A call of remove_duplicates on the list.
ApplyRemoveDuplicates ==
    /\ dedup_pc = "ready"
    /\ dedup_pc' = "returned"
    /\ unique_properties' = RemoveDuplicates(properties)
    /\ UNCHANGED properties
    /\ DedupFrame

DedupNext == ApplyRemoveDuplicates

(***************************************************************************)
(* Properties of the merge step                                            *)
(***************************************************************************)

\* The positions of a list whose record has no id or is the first of the
\* list to carry its id.
FirstOfItsId(props) ==
    {i \in 1..Len(props) :
        \/ props[i].id = NoId
        \/ \A j \in 1..(i - 1) : props[j].id # props[i].id}

\* The records at the positions P among the first n of a list, in order.
RECURSIVE RecordsAt(_, _, _)
RecordsAt(props, P, n) ==
    IF n = 0 THEN <<>>
    ELSE IF n \in P THEN Append(RecordsAt(props, P, n - 1), props[n])
    ELSE RecordsAt(props, P, n - 1)

\* The example of two adapters: A returns a1, a2 and B returns a1, b1.
TwoAdapterExample ==
    <<Property("a1", "zap"), Property("a2", "zap"),
      Property("a1", "vivareal"), Property("b1", "vivareal")>>

\* C2: the output of remove_duplicates is the input without, for each id,
\* every record but the first that carries the id; the records without an
\* id are all kept; the kept records are in the order of the input.  For
\* the two-adapter example it is a1 (of the first adapter), a2, b1.
DedupFirstWins ==
    dedup_pc = "returned" =>
        /\ unique_properties =
              RecordsAt(properties, FirstOfItsId(properties), Len(properties))
        /\ properties = TwoAdapterExample =>
              unique_properties =
                 <<Property("a1", "zap"), Property("a2", "zap"),
                   Property("b1", "vivareal")>>

\* remove_duplicates has dropped the second a1 of a list that also holds
\* two records without an id, and kept both of those.
DedupFirstWinsWitness ==
    /\ dedup_pc = "returned"
    /\ properties = <<Property("a1", "zap"), Property(NoId, "zap"),
                      Property("a1", "vivareal"), Property(NoId, "zap")>>
    /\ Len(unique_properties) = 3

\* The positions of a list whose record has no id.
WithoutId(props) == {i \in DOMAIN props : props[i].id = NoId}

\* C20 as stated: remove_duplicates applied to its own output returns it
\* unchanged, and no id occurs more than once in the output.
DedupIdempotentNoIdTwice ==
    dedup_pc = "returned" =>
        /\ RemoveDuplicates(unique_properties) = unique_properties
        /\ \A i, j \in DOMAIN unique_properties :
              i # j => unique_properties[i].id # unique_properties[j].id

\* C20: remove_duplicates applied to its own output returns it unchanged,
\* and no id that is set occurs more than once in the output; the records
\* whose id is missing or empty are all kept, so that the empty id occurs
\* in the output as often as in the input.
DedupIdempotent ==
    dedup_pc = "returned" =>
        /\ RemoveDuplicates(unique_properties) = unique_properties
        /\ \A i, j \in DOMAIN unique_properties :
              (i # j /\ unique_properties[i].id = unique_properties[j].id)
                 => unique_properties[i].id = NoId
        /\ Cardinality(WithoutId(unique_properties)) =
              Cardinality(WithoutId(properties))

\* remove_duplicates returned three of four records: one of the two that
\* carry a1 and both of the two that carry no id.
DedupIdempotentWitness ==
    /\ dedup_pc = "returned"
    /\ Len(properties) = 4
    /\ properties[1].id = "a1" /\ properties[2].id = "a1"
    /\ properties[3].id = NoId /\ properties[4].id = NoId
    /\ Len(unique_properties) = 3
    /\ Cardinality(WithoutId(unique_properties)) = 2

(***************************************************************************)
(*                       ACQUISITION COORDINATOR                           *)
(***************************************************************************)

\* Number of calls of scrape_properties and scrape_properties_fast.
MaxCoordCalls == 2

\* The value of an optional search parameter: missing, an integer, or a
\* string left unconverted.
Absent == [type |-> "none", v |-> 0]
IntValue(n) == [type |-> "int", v |-> n]
StrValue(n) == [type |-> "str", v |-> n]

\* The truth value Python gives a search parameter in "if params.get(k)".
Truthy(x) == (x.type = "int" /\ x.v # 0) \/ x.type = "str"

\* The prices and bedroom counts a generated record can have, as levels.
PriceLevels == {1, 2, 3}
BedroomChoices == {1, 2}

SearchParams(city, min_price, max_price, bedrooms) ==
    [city |-> city, state |-> "SP", min_price |-> min_price,
     max_price |-> max_price, bedrooms |-> bedrooms]

\* The queries: without constraints; with a price range and a bedroom
\* count that some generated records meet; with a minimum above every
\* price; with constraints of zero; with a minimum that is a string; and
\* without a city.
Queries ==
    {SearchParams("Sao Paulo", Absent, Absent, Absent),
     SearchParams("Sao Paulo", IntValue(2), IntValue(2), IntValue(1)),
     SearchParams("Sao Paulo", IntValue(4), Absent, Absent),
     SearchParams("Sao Paulo", Absent, IntValue(0), IntValue(0)),
     SearchParams("Sao Paulo", StrValue(2), Absent, Absent),
     SearchParams("", Absent, Absent, Absent)}

\* ScraperCoordinator.enabled_scrapers (the default)
EnabledScrapers == Adapters

\* A required parameter that is not in the dictionary.
MissingField == "(missing)"

\* The values of city and of state: a name, the empty string, spaces, or
\* no value.
CityValues == {"Sao Paulo", "", "  ", MissingField}
StateValues == {"SP", "", " ", MissingField}

\* str.strip() on the values above.
Strip(text) == IF text \in {"  ", " "} THEN "" ELSE text

\* ScraperCoordinator.validate_search_params, taken to accept everything.
ValidateSearchParamsAlways(q) == TRUE
\* ScraperCoordinator.validate_search_params
ValidateSearchParams(q) ==
    /\ q.city # MissingField /\ Strip(q.city) # ""
    /\ q.state # MissingField /\ Strip(q.state) # ""

\* The queries without constraints, with every value of city beside a
\* state that is a name, and every value of state beside a city that is.
ValidationQueries ==
    {[SearchParams(city, Absent, Absent, Absent) EXCEPT !.state = state] :
        city \in CityValues, state \in {"SP"}}
    \cup
    {[SearchParams(city, Absent, Absent, Absent) EXCEPT !.state = state] :
        city \in {"Sao Paulo"}, state \in StateValues}

\* ScraperCoordinator._generate_cache_key: a digest of the sorted
\* parameters and of the sorted enabled scrapers.
GenerateCacheKey(q) == <<q, EnabledScrapers>>

\* cache.get_search_results: the list stored under the key, None (here the
\* empty list, which Python also takes as false) when there is none.
GetSearchResults(key) == IF key \in DOMAIN cache THEN cache[key] ELSE <<>>

\* cache.cache_search_results: the cache after storing the list.
CacheSearchResults(key, value) ==
    [k \in DOMAIN cache \cup {key} |-> IF k = key THEN value ELSE cache[k]]

\* The test "if cached_results:", taken never to find anything.
CacheHitNever(cached_results) == FALSE
\* The test "if cached_results:" of both acquisition paths.
CacheHit(cached_results) == cached_results # <<>>

\* What a call of an adapter's scrape_properties does: raise or return.
Raises == [raised |-> TRUE, records |-> <<>>]
Returns(records) == [raised |-> FALSE, records |-> records]

AdapterResults(a) ==
    IF a = "zap"
    THEN {Raises, Returns(<<>>),
          Returns(<<Property("a1", "zap"), Property("a2", "zap")>>)}
    ELSE {Raises, Returns(<<>>),
          Returns(<<Property("a1", "vivareal"), Property("b1", "vivareal")>>)}

\* The adapters all returning nothing.
QuietOutcome == [a \in scrapers |-> Returns(<<>>)]
AdapterOutcomes ==
    {f \in [scrapers -> UNION {AdapterResults(a) : a \in Adapters}] :
        \A a \in scrapers : f[a] \in AdapterResults(a)}

\* ZapScraper._generate_sample_properties: the records it can build, as
\* many as pass _matches_search_filters.  They have no market_based key.
SampleIds == <<"zap_sample_1", "zap_sample_2">>
GenerateSampleProperties ==
    {<<>>, <<Property(SampleIds[1], "zap")>>,
     <<Property(SampleIds[1], "zap"), Property(SampleIds[2], "zap")>>}

\* What the fetch and extraction of ZapScraper.scrape_properties come to.
ZapFetches == {"failed", "empty", "found"}

\* ZapScraper.scrape_properties: the records of the page when there are
\* some, the sample records otherwise; it does not raise.
ZapScrapeProperties(fetch, sample) ==
    IF fetch = "found"
    THEN Returns(<<Property("a1", "zap"), Property("a2", "zap")>>)
    ELSE Returns(sample)

\* What the adapters do when zap is the ZapScraper of the application.
SiteOutcomes ==
    {f \in [scrapers -> UNION {AdapterResults(a) : a \in Adapters} \cup
                         {Returns(s) : s \in GenerateSampleProperties}] :
        \A a \in scrapers :
           IF a = "zap"
           THEN \E fetch \in ZapFetches, s \in GenerateSampleProperties :
                   f[a] = ZapScrapeProperties(fetch, s)
           ELSE f[a] \in AdapterResults(a)}
SaveFaults == {"none", "fails"}
CacheFaults == {"none", "get", "set"}

\* The iteration order of the dictionary self.scrapers.
ScraperOrder == SelectSeq(<<"zap", "vivareal">>, LAMBDA a : a \in scrapers)

\* The orders in which as_completed can yield the futures.
CompletionOrders ==
    IF scrapers = Adapters
    THEN {<<"zap", "vivareal">>, <<"vivareal", "zap">>}
    ELSE {ScraperOrder}

\* Whether the error of an adapter leaves _scrape_sequential or
\* _scrape_parallel, taken to do so.
AdapterErrorEscapesUncaught(outcome) == outcome.raised
\* Whether the error of an adapter leaves _scrape_sequential or
\* _scrape_parallel: their except clauses log it and go on.
AdapterErrorEscapes(outcome) == FALSE

\* all_properties after collecting the adapters in the given order.
RECURSIVE Collect(_, _)
Collect(order, outcome) ==
    IF order = <<>> THEN <<>>
    ELSE (IF outcome[Head(order)].raised THEN <<>>
          ELSE outcome[Head(order)].records) \o Collect(Tail(order), outcome)

\* Whether scrape_properties writes its result to the cache, taken never
\* to do so.
StoresResultNever(use_cache, enriched_properties) == FALSE
\* Whether scrape_properties writes its result to the cache:
\* "if use_cache and enriched_properties".
StoresResult(use_cache, enriched_properties) ==
    use_cache /\ enriched_properties # <<>>

\* ScraperCoordinator.enrich_properties
EnrichProperties(props) ==
    [i \in DOMAIN props |-> [props[i] EXCEPT !.coordinator_version = "1.0"]]

\* The sum of the values of a function over a set of its arguments.
RECURSIVE SumOver(_, _)
SumOver(f, S) ==
    IF S = {} THEN 0
    ELSE LET x == CHOOSE y \in S : TRUE IN f[x] + SumOver(f, S \ {x})

\* A counter after the "+=" of the two worker threads: unsynchronised, so
\* one thread's update can be lost to the other's.
RacyAdd(c, inc, writers, racy) ==
    IF racy /\ Cardinality(writers) > 1
    THEN {c + SumOver(inc, S) : S \in (SUBSET writers) \ {{}}}
    ELSE {c + SumOver(inc, writers)}

\* total_errors after the adapters in `failed` raised: each is counted in
\* _scrape_with_scraper and again by its caller; with two worker threads
\* failing one thread's update can be lost.
RacyErrors(c, failed, racy) ==
    IF racy /\ Cardinality(failed) > 1
    THEN {c + n : n \in 2..(2 * Cardinality(failed))}
    ELSE {c + 2 * Cardinality(failed)}

NoCall == [op |-> "none"]

CoordInit ==
    /\ scrapers \in {{}, {"zap"}, Adapters}
    /\ fast_scrapers \in {{}, {"zap"}}
    /\ cache = <<>>
    /\ stats = [total_requests |-> 0, total_properties |-> 0,
                total_errors |-> 0]
    /\ requests_made = [a \in Adapters |-> 0]
    /\ call = NoCall
    /\ n_calls = 0

\* The time to live of a cached list runs out.
CacheExpire(key) ==
    /\ key \in DOMAIN cache
    /\ cache' = [k \in DOMAIN cache \ {key} |-> cache[k]]
    /\ UNCHANGED <<scrapers, fast_scrapers, stats, requests_made, call,
                   n_calls>>
    /\ CoordFrame

\* What one db_handler.save_property call does: it returns true, returns
\* false, or raises.
SaveResults == {"saved", "false", "raises"}
AllSaved(props) == [i \in DOMAIN props |-> "saved"]

\* The save loop of scrape_properties, taken to end at the first record
\* whose save fails.
SaveAllStopsAtFailure(props, saves) ==
    LET failing == {i \in DOMAIN props : saves[i] # "saved"}
        last == IF failing = {} THEN Len(props)
                ELSE CHOOSE i \in failing : \A j \in failing : i <= j
    IN  [attempts |-> last,
         saved_count |-> Cardinality({i \in 1..last : saves[i] = "saved"})]
\* The save loop of scrape_properties: save_property is called for each
\* record in turn inside its own try, a false result is not counted and an
\* exception is logged, and the loop goes on.
SaveAll(props, saves) ==
    [attempts |-> Len(props),
     saved_count |-> Cardinality({i \in DOMAIN props : saves[i] = "saved"})]

\* The end of scrape_properties, from what it has read and computed:
\* cached_results is what the cache held, enriched_properties what the
\* adapters' records come to when the call gets that far, saves what
\* save_property does for each of them.
ScrapePropertiesPersist(q, use_cache, parallel, cachefault, outcome, collected, cached_results, enriched_properties, saves) ==
    LET valid == ValidateSearchParams(q)
        reads == valid /\ use_cache
        getFails == reads /\ cachefault = "get"
        hit == reads /\ ~getFails /\ CacheHit(cached_results)
        dispatched == valid /\ ~getFails /\ ~hit
        threads == parallel /\ Cardinality(scrapers) > 1
        escaped == \E a \in scrapers : AdapterErrorEscapes(outcome[a])
        writes == dispatched /\ ~escaped
                    /\ StoresResult(use_cache, enriched_properties)
        setFails == writes /\ cachefault = "set"
        failed == {a \in scrapers : outcome[a].raised}
        reqs == [a \in Adapters |-> requests_made[a] + 1]
        lens == [a \in Adapters |->
                    IF a \in scrapers THEN Len(outcome[a].records) ELSE 0]
        caught == getFails \/ setFails \/ (dispatched /\ escaped)
    IN
    /\ cachefault = "set" => writes
    /\ cache' = IF writes /\ ~setFails
                THEN CacheSearchResults(GenerateCacheKey(q),
                                        enriched_properties)
                ELSE cache
    /\ requests_made' = IF dispatched
                        THEN [a \in Adapters |->
                                IF a \in scrapers THEN reqs[a]
                                ELSE requests_made[a]]
                        ELSE requests_made
    /\ IF dispatched
       THEN \E tr \in RacyAdd(stats.total_requests, reqs,
                              scrapers \ failed, threads),
               tp \in RacyAdd(stats.total_properties, lens,
                              scrapers \ failed, threads),
               te \in RacyErrors(stats.total_errors, failed, threads) :
               stats' = [total_requests |-> tr, total_properties |-> tp,
                         total_errors |-> te + (IF caught THEN 1 ELSE 0)]
       ELSE stats' = [stats EXCEPT
                        !.total_errors = @ + (IF caught THEN 1 ELSE 0)]
    /\ call' = [op |-> "acquire", query |-> q, use_cache |-> use_cache,
                parallel |-> parallel, valid |-> valid,
                cache_read |-> reads,
                cache_failed |-> getFails \/ setFails,
                held |-> cached_results,
                invoked |-> IF dispatched THEN scrapers ELSE {},
                outcome |-> outcome,
                collected |-> IF dispatched THEN collected ELSE <<>>,
                live |-> "none", fallback |-> FALSE,
                save_calls |-> IF dispatched /\ ~escaped
                               THEN SaveAll(enriched_properties,
                                            saves).attempts
                               ELSE 0,
                saved_count |-> IF dispatched /\ ~escaped
                                THEN SaveAll(enriched_properties,
                                             saves).saved_count
                                ELSE 0,
                save_results |-> IF dispatched /\ ~escaped THEN saves
                                 ELSE <<>>,
                cache_written |-> writes /\ ~setFails,
                raised |-> FALSE,
                result |-> IF ~valid \/ caught THEN <<>>
                           ELSE IF hit THEN cached_results
                           ELSE enriched_properties]

\* The end of scrape_properties when every save succeeds.
ScrapePropertiesReturn(q, use_cache, parallel, cachefault, outcome, collected, cached_results, enriched_properties) ==
    ScrapePropertiesPersist(q, use_cache, parallel, cachefault, outcome,
        collected, cached_results, enriched_properties,
        AllSaved(enriched_properties))

\* The body of scrape_properties once its inputs are known: outcome[a] is
\* what adapter a does, collected the order in which the adapters' results
\* are put together.
ScrapePropertiesBody(q, use_cache, parallel, cachefault, outcome, collected) ==
    ScrapePropertiesReturn(q, use_cache, parallel, cachefault, outcome,
        collected, GetSearchResults(GenerateCacheKey(q)),
        EnrichProperties(RemoveDuplicates(Collect(collected, outcome))))

\* ScraperCoordinator.scrape_properties(search_params, use_cache, parallel)
\* with what its collaborators do during the call: a failing cache read or
\* write (cachefault) and, when the call gets to the adapters, what each
\* does and in which order the futures complete.
ScrapeProperties(q, use_cache, parallel, cachefault) ==
    LET reads == ValidateSearchParams(q) /\ use_cache
        hit == reads /\ cachefault # "get"
                 /\ CacheHit(GetSearchResults(GenerateCacheKey(q)))
        dispatched == ValidateSearchParams(q) /\ ~hit
                        /\ ~(reads /\ cachefault = "get")
        threads == parallel /\ Cardinality(scrapers) > 1
    IN
    /\ n_calls < MaxCoordCalls
    /\ n_calls' = n_calls + 1
    /\ cachefault = "get" => reads
    /\ \E outcome \in (IF dispatched THEN AdapterOutcomes ELSE {QuietOutcome}),
          collected \in (IF dispatched /\ threads THEN CompletionOrders
                         ELSE {ScraperOrder}) :
          ScrapePropertiesBody(q, use_cache, parallel, cachefault, outcome,
                               collected)
    /\ UNCHANGED <<scrapers, fast_scrapers>>
    /\ CoordFrame

\* The body of scrape_properties with a storage whose saves can fail.
ScrapePropertiesSavingBody(q, use_cache, parallel, cachefault, outcome, collected, enriched_properties) ==
    \E saves \in [DOMAIN enriched_properties -> SaveResults] :
        ScrapePropertiesPersist(q, use_cache, parallel, cachefault, outcome,
            collected, GetSearchResults(GenerateCacheKey(q)),
            enriched_properties, saves)

\* scrape_properties on a coordinator whose storage can fail to save a
\* record.
ScrapePropertiesSaving(q, use_cache, parallel, cachefault) ==
    LET reads == ValidateSearchParams(q) /\ use_cache
        hit == reads /\ cachefault # "get"
                 /\ CacheHit(GetSearchResults(GenerateCacheKey(q)))
        dispatched == ValidateSearchParams(q) /\ ~hit
                        /\ ~(reads /\ cachefault = "get")
        threads == parallel /\ Cardinality(scrapers) > 1
    IN
    /\ n_calls < MaxCoordCalls
    /\ n_calls' = n_calls + 1
    /\ cachefault = "get" => reads
    /\ \E outcome \in (IF dispatched THEN AdapterOutcomes ELSE {QuietOutcome}),
          collected \in (IF dispatched /\ threads THEN CompletionOrders
                         ELSE {ScraperOrder}) :
          ScrapePropertiesSavingBody(q, use_cache, parallel, cachefault,
              outcome, collected,
              EnrichProperties(RemoveDuplicates(Collect(collected, outcome))))
    /\ UNCHANGED <<scrapers, fast_scrapers>>
    /\ CoordFrame

\* scrape_properties of a coordinator whose zap adapter is the ZapScraper
\* of the application.
ScrapePropertiesSites(q, use_cache, parallel, cachefault) ==
    LET reads == ValidateSearchParams(q) /\ use_cache
        hit == reads /\ cachefault # "get"
                 /\ CacheHit(GetSearchResults(GenerateCacheKey(q)))
        dispatched == ValidateSearchParams(q) /\ ~hit
                        /\ ~(reads /\ cachefault = "get")
        threads == parallel /\ Cardinality(scrapers) > 1
    IN
    /\ n_calls < MaxCoordCalls
    /\ n_calls' = n_calls + 1
    /\ cachefault = "get" => reads
    /\ \E outcome \in (IF dispatched THEN SiteOutcomes ELSE {QuietOutcome}),
          collected \in (IF dispatched /\ threads THEN CompletionOrders
                         ELSE {ScraperOrder}) :
          ScrapePropertiesBody(q, use_cache, parallel, cachefault, outcome,
                               collected)
    /\ UNCHANGED <<scrapers, fast_scrapers>>
    /\ CoordFrame

\* Number of candidate records the fallback generator draws.
GenCountMax == 1

\* What the random draws of _generate_intelligent_data can be: for each
\* candidate a price and a bedroom count.
Candidates ==
    ListsUpTo([price : PriceLevels, bedrooms : BedroomChoices], GenCountMax)
        \ {<<>>}
OneCandidate == <<[price |-> 1, bedrooms |-> 1]>>

IntelligentIds == <<"zap_intelligent_0", "zap_intelligent_1",
                    "zap_intelligent_2", "zap_intelligent_3">>

GeneratedProperty(i, price, bedrooms) ==
    [id |-> IntelligentIds[i], source |-> "zap", price |-> price,
     bedrooms |-> bedrooms, market_based |-> TRUE,
     coordinator_version |-> ""]

\* Whether a search parameter is applied to the generated records, taken
\* never to be.
FilterAppliesNever(x) == FALSE
\* Whether a search parameter is applied to the generated records:
\* "if search_params.get(k) and ...".
FilterApplies(x) == Truthy(x)

\* The for loop of _generate_intelligent_data from candidate i on.  The
\* comparison of the integer price with a string raises TypeError; a
\* bedroom count differs from every string.
RECURSIVE GenerateLoop(_, _, _, _)
GenerateLoop(q, cands, i, props) ==
    IF i > Len(cands) THEN Returns(props)
    ELSE LET price == cands[i].price
             bedrooms == cands[i].bedrooms
         IN  IF FilterApplies(q.min_price) /\ q.min_price.type = "str"
             THEN Raises
             ELSE IF FilterApplies(q.min_price) /\ price < q.min_price.v
             THEN GenerateLoop(q, cands, i + 1, props)
             ELSE IF FilterApplies(q.max_price) /\ q.max_price.type = "str"
             THEN Raises
             ELSE IF FilterApplies(q.max_price) /\ price > q.max_price.v
             THEN GenerateLoop(q, cands, i + 1, props)
             ELSE IF FilterApplies(q.bedrooms)
                     /\ (q.bedrooms.type = "str" \/ bedrooms # q.bedrooms.v)
             THEN GenerateLoop(q, cands, i + 1, props)
             ELSE GenerateLoop(q, cands, i + 1,
                     Append(props, GeneratedProperty(i, price, bedrooms)))

\* ProductionZapScraper._generate_intelligent_data
GenerateIntelligentData(q, cands) == GenerateLoop(q, cands, 1, <<>>)

\* ScraperCoordinator._generate_fallback_data
GenerateFallbackData(q, cands) ==
    IF "zap" \in fast_scrapers THEN GenerateIntelligentData(q, cands)
    ELSE Returns(<<>>)

\* What the live extraction of the fast adapter can come to: records, or
\* none (an error, no page, a page without records), which all lead to the
\* generator.
LiveOutcomes == {"failed", "found"}
LiveProperty(id, price, bedrooms) ==
    [Property(id, "zap") EXCEPT !.price = price, !.bedrooms = bedrooms]
LiveFastResults ==
    <<LiveProperty("f1", 2, 1), LiveProperty("f2", 2, 1),
      LiveProperty("f3", 3, 2)>>

\* ProductionZapScraper.scrape_properties_fast
FastAdapter(q, live, cands) ==
    IF live = "found" THEN Returns(LiveFastResults)
    ELSE GenerateIntelligentData(q, cands)

\* The key of remove_duplicates_fast: price, city, bedrooms (the records
\* of one call are all of the city asked for).
FastKey(prop) == <<prop.price, prop.bedrooms>>

RECURSIVE RemoveDuplicatesFastLoop(_, _, _, _)
RemoveDuplicatesFastLoop(props, i, seen, unique) ==
    IF i > Len(props) THEN unique
    ELSE IF FastKey(props[i]) \notin seen
    THEN RemoveDuplicatesFastLoop(props, i + 1,
            seen \cup {FastKey(props[i])}, Append(unique, props[i]))
    ELSE RemoveDuplicatesFastLoop(props, i + 1, seen, unique)

\* ScraperCoordinator.remove_duplicates_fast
RemoveDuplicatesFast(props) == RemoveDuplicatesFastLoop(props, 1, {}, <<>>)

\* properties[:10] of _save_properties_async
SaveBatch == 10
Min(a, b) == IF a < b THEN a ELSE b

\* The end of scrape_properties_fast, from what it has read and computed:
\* adapter is what the fast adapter did, unique its records without
\* duplicates, fallback what _generate_fallback_data does if called.
ScrapePropertiesFastReturn(q, live, cachefault, bgfault, cached_results, adapter, unique, fallback) ==
    LET getFails == cachefault = "get"
        hit == ~getFails /\ CacheHit(cached_results)
        stores == ~getFails /\ ~hit /\ ~adapter.raised /\ unique # <<>>
        setFails == stores /\ cachefault = "set"
        caught == getFails \/ adapter.raised \/ setFails
    IN
    /\ cachefault = "set" => stores
    /\ bgfault # "none" => stores
    /\ cache' = IF stores /\ ~setFails
                THEN CacheSearchResults(GenerateCacheKey(q), unique)
                ELSE cache
    /\ call' = [op |-> "fast", query |-> q, use_cache |-> TRUE,
                parallel |-> FALSE, valid |-> ValidateSearchParams(q),
                cache_read |-> TRUE,
                cache_failed |-> getFails \/ setFails,
                held |-> cached_results,
                invoked |-> IF ~getFails /\ ~hit /\ "zap" \in fast_scrapers
                            THEN {"zap"} ELSE {},
                outcome |-> <<>>, collected |-> <<>>,
                live |-> live,
                fallback |-> caught,
                save_calls |-> IF stores /\ bgfault = "none"
                               THEN Min(Len(unique), SaveBatch) ELSE 0,
                cache_written |-> stores /\ ~setFails,
                raised |-> caught /\ fallback.raised,
                result |-> IF hit THEN cached_results
                           ELSE IF caught THEN fallback.records
                           ELSE unique]

\* The body of scrape_properties_fast once what the adapter does is known.
ScrapePropertiesFastBody(q, live, cachefault, adapter, fcands, bgfault) ==
    ScrapePropertiesFastReturn(q, live, cachefault, bgfault,
        GetSearchResults(GenerateCacheKey(q)), adapter,
        RemoveDuplicatesFast(adapter.records),
        GenerateFallbackData(q, fcands))

\* What the call gets from the fast adapter: the adapter is not called on
\* a failed cache read, on a hit, and when there is no fast adapter.
FastAdapterCall(q, live, cachefault, cands) ==
    IF cachefault # "get"
         /\ ~CacheHit(GetSearchResults(GenerateCacheKey(q)))
         /\ "zap" \in fast_scrapers
    THEN FastAdapter(q, live, cands)
    ELSE Returns(<<>>)

\* The draws of the generator in the handler of the coordinator, once what
\* the adapter does is known, and the fate of the background save.
ScrapePropertiesFastSettle(q, live, cachefault, adapter) ==
    LET stores == cachefault # "get"
                    /\ ~CacheHit(GetSearchResults(GenerateCacheKey(q)))
                    /\ ~adapter.raised /\ adapter.records # <<>>
        falls == "zap" \in fast_scrapers
                   /\ (cachefault = "get" \/ adapter.raised
                         \/ (stores /\ cachefault = "set"))
    IN  /\ cachefault = "set" => stores
        /\ \E fcands \in (IF falls THEN Candidates ELSE {OneCandidate}),
              bgfault \in (IF stores THEN SaveFaults ELSE {"none"}) :
              ScrapePropertiesFastBody(q, live, cachefault, adapter, fcands,
                                       bgfault)

\* ScraperCoordinator.scrape_properties_fast(search_params) with what its
\* collaborators do during the call: the live extraction of the adapter, a
\* failing cache read or write, the draws of the generator and a failing
\* background save.
ScrapePropertiesFast(q, live, cachefault) ==
    LET hit == cachefault # "get"
                 /\ CacheHit(GetSearchResults(GenerateCacheKey(q)))
        consulted == cachefault # "get" /\ ~hit /\ "zap" \in fast_scrapers
        generates == consulted /\ live # "found"
    IN
    /\ n_calls < MaxCoordCalls
    /\ n_calls' = n_calls + 1
    /\ ~consulted => live = "failed"
    /\ \E cands \in (IF generates THEN Candidates ELSE {OneCandidate}) :
          ScrapePropertiesFastSettle(q, live, cachefault,
              FastAdapterCall(q, live, cachefault, cands))
    /\ UNCHANGED <<scrapers, fast_scrapers, stats, requests_made>>
    /\ CoordFrame

\* The queries scrape_properties is called with: it reads the city and
\* the state only.
AcquireQueries ==
    {q \in Queries : q.min_price = Absent /\ q.max_price = Absent}

\* The calls of scrape_properties and the expiry of cached lists.
AcquireNext ==
    \/ \E q \in AcquireQueries, use_cache \in BOOLEAN, parallel \in BOOLEAN,
          cachefault \in CacheFaults :
          ScrapeProperties(q, use_cache, parallel, cachefault)
    \/ \E q \in AcquireQueries : CacheExpire(GenerateCacheKey(q))

\* The calls of scrape_properties with every value of city and state,
\* next to calls of scrape_properties_fast, which does not validate, that
\* find records and leave them in the cache under the key of the query.
ValidateNext ==
    \/ \E q \in ValidationQueries, use_cache \in BOOLEAN,
          parallel \in BOOLEAN, cachefault \in CacheFaults :
          ScrapeProperties(q, use_cache, parallel, cachefault)
    \/ \E q \in ValidationQueries :
          ScrapePropertiesFast(q, "found", "none")

\* The queries scrape_properties_fast is called with: it does not look
\* at the city.
FastQueries == {q \in Queries : q.city # ""}

CoordNext ==
    \/ \E q \in AcquireQueries, use_cache \in BOOLEAN, parallel \in BOOLEAN,
          cachefault \in CacheFaults :
          ScrapeProperties(q, use_cache, parallel, cachefault)
    \/ \E q \in FastQueries, live \in LiveOutcomes,
          cachefault \in CacheFaults :
          ScrapePropertiesFast(q, live, cachefault)
    \/ \E q \in Queries : CacheExpire(GenerateCacheKey(q))

\* The values an adapter's get_stats reports for properties_found and
\* errors_count.
CounterValues == {0, 1}

\* A total of get_scraper_stats, taken to have the coordinator's own
\* counter added to it.
TotalStatPlusCoordinator(adapter_sum, coordinator_counter) == adapter_sum + coordinator_counter
\* A total of get_scraper_stats: it starts at 0 and has the adapters'
\* counters added; the coordinator's own counter is not read.
TotalStat(adapter_sum, coordinator_counter) == adapter_sum

\* ScraperCoordinator.get_scraper_stats, where get_stats of the adapters
\* in `failing` raises and the others report requests_made and the
\* counters found and errors.
GetScraperStats(failing, found, errors) ==
    LET read == scrapers \ failing
        by_source == [a \in read |->
                        [requests_made |-> requests_made[a],
                         properties_found |-> found[a],
                         errors_count |-> errors[a]]]
    IN
    /\ call' = [op |-> "stats", failing |-> failing \cap scrapers,
                requests |-> requests_made, found |-> found,
                errors |-> errors, coordinator |-> stats,
                result |-> [total_requests |->
                               TotalStat(SumOver(requests_made, read),
                                         stats.total_requests),
                            total_properties |->
                               TotalStat(SumOver(found, read),
                                         stats.total_properties),
                            total_errors |->
                               TotalStat(SumOver(errors, read),
                                         stats.total_errors),
                            by_source |-> by_source]]
    /\ UNCHANGED <<scrapers, fast_scrapers, cache, stats, requests_made,
                   n_calls>>
    /\ CoordFrame

\* Sequential calls of scrape_properties, which move the counters, and
\* calls of get_scraper_stats.
StatsNext ==
    \/ \E q \in AcquireQueries : ScrapeProperties(q, FALSE, FALSE, "none")
    \/ \E failing \in SUBSET Adapters,
          found \in [Adapters -> CounterValues],
          errors \in [Adapters -> CounterValues] :
          GetScraperStats(failing, found, errors)

\* The two ways of acquiring, with the site adapters of the application.
SampleNext ==
    \/ \E q \in AcquireQueries, use_cache \in BOOLEAN, parallel \in BOOLEAN,
          cachefault \in CacheFaults :
          ScrapePropertiesSites(q, use_cache, parallel, cachefault)
    \/ \E q \in AcquireQueries, live \in LiveOutcomes :
          ScrapePropertiesFast(q, live, "none")

\* Acquiring, one adapter after the other, with a storage whose saves can
\* fail.
PersistNext ==
    \/ \E q \in AcquireQueries, use_cache \in BOOLEAN,
          cachefault \in {"none", "set"} :
          ScrapePropertiesSaving(q, use_cache, FALSE, cachefault)
    \/ \E q \in AcquireQueries : CacheExpire(GenerateCacheKey(q))

(***************************************************************************)
(*                  Properties of the coordinator                          *)
(***************************************************************************)

\* The ids of a list of records.
IdsOf(props) == {props[i].id : i \in DOMAIN props}

\* The adapters of a call that returned, and the records they returned.
ReturnedBy(c) == {a \in c.invoked : ~c.outcome[a].raised}
ScrapedBy(c) ==
    UNION {{c.outcome[a].records[i] : i \in DOMAIN c.outcome[a].records} :
              a \in ReturnedBy(c)}

\* A record as the adapter returned it, before enrich_properties.
AsScraped(prop) == [prop EXCEPT !.coordinator_version = ""]

\* C1: a call of scrape_properties that gets to the adapters, in parallel
\* or in sequence, does not raise whatever adapters raise, and, the cache
\* not failing, returns the records of the adapters that returned and no
\* others, each id once: nothing when every adapter raised, and the
\* records of an adapter that returned whatever the others did.
AcquireToleratesAdapterFailure ==
    (call.op = "acquire" /\ call.invoked # {}) =>
        /\ ~call.raised
        /\ ~call.cache_failed =>
             /\ IdsOf(call.result) = {p.id : p \in ScrapedBy(call)}
             /\ \A i, j \in DOMAIN call.result :
                   call.result[i].id = call.result[j].id => i = j
             /\ \A i \in DOMAIN call.result :
                   AsScraped(call.result[i]) \in ScrapedBy(call)
             /\ ReturnedBy(call) = {} => call.result = <<>>

\* A parallel call in which one adapter raised and the other returned two
\* records, which the call returned.
AcquireToleratesAdapterFailureWitness ==
    /\ call.op = "acquire"
    /\ call.parallel
    /\ call.invoked = Adapters
    /\ call.outcome["zap"].raised
    /\ ~call.outcome["vivareal"].raised
    /\ ~call.cache_failed
    /\ IdsOf(call.result) = {"a1", "b1"}

\* The adapters of a call that raised.
RaisedIn(c) == {a \in c.invoked : c.outcome[a].raised}

\* C12: a call of scrape_properties that gets to the adapters, in parallel
\* or in sequence, the cache not failing, leaves total_errors greater by
\* exactly the number of adapters that raised: by 1 when one adapter
\* raised and the others returned.
ErrorsCountRaisedOnce ==
    [][(/\ n_calls' = n_calls + 1
        /\ call'.op = "acquire"
        /\ call'.invoked # {}
        /\ ~call'.cache_failed)
       => stats'.total_errors
             = stats.total_errors + Cardinality(RaisedIn(call'))]_vars

\* The number of records each adapter of a call returned.
RecordCounts(c) == [a \in c.invoked |-> Len(c.outcome[a].records)]

\* C23: a call of scrape_properties that runs its adapters in parallel,
\* the cache not failing, loses no increment of the shared counters:
\* total_properties grows by the sum of the record counts returned,
\* total_requests by the sum of what the returning adapters contribute
\* and total_errors by the two increments made for each failure.
NoLostIncrement ==
    [][(/\ n_calls' = n_calls + 1
        /\ call'.op = "acquire"
        /\ call'.parallel
        /\ call'.invoked # {}
        /\ ~call'.cache_failed)
       => /\ stats'.total_properties = stats.total_properties
                + SumOver(RecordCounts(call'), ReturnedBy(call'))
          /\ stats'.total_requests = stats.total_requests
                + SumOver(requests_made', ReturnedBy(call'))
          /\ stats'.total_errors = stats.total_errors
                + 2 * Cardinality(RaisedIn(call'))]_vars

\* A step that is a call of scrape_properties with use_cache on a valid
\* query which missed the cache and went through the adapters, the cache
\* not failing.
MissedAndDispatched ==
    /\ n_calls' = n_calls + 1
    /\ call'.op = "acquire"
    /\ call'.valid
    /\ call'.use_cache
    /\ call'.invoked # {}
    /\ ~call'.cache_failed
    /\ call'.held = <<>>

\* C14 as stated: every such call leaves its result in the cache under
\* the key of the query, so that the same call made next is a hit.
CacheFilledAfterMiss ==
    [][MissedAndDispatched =>
          /\ call'.cache_written
          /\ GenerateCacheKey(call'.query) \in DOMAIN cache'
          /\ cache'[GenerateCacheKey(call'.query)] = call'.result
          /\ CacheHit(cache'[GenerateCacheKey(call'.query)])]_vars

\* C14: such a call leaves its result in the cache under the key of the
\* query, so that the same call made next is a hit, when the result is
\* not empty; with an empty result it leaves the cache as it was and the
\* same call made next misses again.
CacheFilledWhenNonEmpty ==
    [][MissedAndDispatched =>
          IF call'.result # <<>>
          THEN /\ call'.cache_written
               /\ GenerateCacheKey(call'.query) \in DOMAIN cache'
               /\ cache'[GenerateCacheKey(call'.query)] = call'.result
               /\ CacheHit(cache'[GenerateCacheKey(call'.query)])
          ELSE /\ ~call'.cache_written
               /\ cache' = cache
               /\ GenerateCacheKey(call'.query) \notin DOMAIN cache']_vars

\* A call that missed, got records from the adapters and left them in
\* the cache.
CacheFilledWhenNonEmptyWitness ==
    /\ call.op = "acquire"
    /\ call.valid
    /\ call.use_cache
    /\ call.held = <<>>
    /\ ~call.cache_failed
    /\ call.result # <<>>
    /\ call.cache_written
    /\ GetSearchResults(GenerateCacheKey(call.query)) = call.result

\* Whether city or state is missing, empty or nothing but spaces.
Blank(text) == text \in {MissingField, "", " ", "  "}

\* C15: a call of scrape_properties with a query whose city or state is
\* missing, empty or nothing but spaces returns the empty list and has
\* not read the cache, called an adapter, saved a record or written the
\* cache.
InvalidQueryShortCircuit ==
    (call.op = "acquire"
       /\ (Blank(call.query.city) \/ Blank(call.query.state))) =>
        /\ call.result = <<>>
        /\ ~call.raised
        /\ ~call.cache_read
        /\ call.invoked = {}
        /\ call.save_calls = 0
        /\ ~call.cache_written

\* A call with use_cache and a city of spaces returned the empty list
\* although the cache held a list under the key of the query.
InvalidQueryShortCircuitWitness ==
    /\ call.op = "acquire"
    /\ call.query.city = "  "
    /\ call.query.state = "SP"
    /\ call.use_cache
    /\ call.held # <<>>
    /\ GetSearchResults(GenerateCacheKey(call.query)) = call.held
    /\ call.result = <<>>

\* Whether a call found a value in the cache: the read went through and
\* gave a list that is not empty.
FoundInCache(c) == c.held # <<>> /\ ~c.cache_failed

\* C7: a call of scrape_properties with use_cache on a valid query, or a
\* call of scrape_properties_fast, that finds a value under the key of the
\* query returns that value, calls no adapter, saves no record and writes
\* nothing to the cache.
CacheHitShortCircuit ==
    (/\ call.op \in {"acquire", "fast"}
     /\ call.op = "acquire" => call.valid /\ call.use_cache
     /\ FoundInCache(call)) =>
        /\ call.result = call.held
        /\ call.invoked = {}
        /\ call.save_calls = 0
        /\ ~call.cache_written
        /\ ~call.raised

\* A call of scrape_properties that returned the list a call of
\* scrape_properties_fast had cached.
CacheHitShortCircuitWitness ==
    /\ call.op = "acquire"
    /\ call.valid
    /\ call.use_cache
    /\ FoundInCache(call)
    /\ call.result = call.held
    /\ call.invoked = {}
    /\ \E i \in DOMAIN call.held : call.held[i].market_based

\* C8: scrape_properties_fast returns a list to its caller and lets no
\* exception through, whatever fails during the call.
FastPathNeverRaises == call.op = "fast" => ~call.raised

\* A call of scrape_properties_fast that got nothing from the live
\* extraction and found nothing in the cache.
TotalFailure(c) == c.op = "fast" /\ c.live = "failed" /\ ~FoundInCache(c)

\* Whether a record meets a price bound or bedroom count given as a
\* number.
MeetsMin(prop, x) == x.type = "int" => prop.price >= x.v
MeetsMax(prop, x) == x.type = "int" => prop.price <= x.v
MeetsBedrooms(prop, x) == x.type = "int" => prop.bedrooms = x.v

\* The same for a number that is not zero.
MeetsNonZeroMin(prop, x) == (x.type = "int" /\ x.v # 0) => prop.price >= x.v
MeetsNonZeroMax(prop, x) == (x.type = "int" /\ x.v # 0) => prop.price <= x.v
MeetsNonZeroBedrooms(prop, x) ==
    (x.type = "int" /\ x.v # 0) => prop.bedrooms = x.v

ReportedBy(c, a) ==
    [requests_made |-> c.requests[a], properties_found |-> c.found[a],
     errors_count |-> c.errors[a]]

\* C18 as stated: the totals of get_scraper_stats are the sums of the
\* adapters' counters plus the coordinator's own counters, and by_source
\* lists every adapter's statistics under its name.
StatsSumPlusCoordinator ==
    (call.op = "stats" /\ call.failing = {}) =>
       /\ call.result.total_requests =
             SumOver(call.requests, scrapers) + call.coordinator.total_requests
       /\ call.result.total_properties =
             SumOver(call.found, scrapers) + call.coordinator.total_properties
       /\ call.result.total_errors =
             SumOver(call.errors, scrapers) + call.coordinator.total_errors
       /\ DOMAIN call.result.by_source = scrapers
       /\ \A a \in scrapers : call.result.by_source[a] = ReportedBy(call, a)

\* C18: the totals of get_scraper_stats are the sums, over the adapters
\* whose get_stats returned, of requests_made, properties_found and
\* errors_count, the coordinator's own counters not being added, and
\* by_source lists the statistics of exactly those adapters under their
\* names.
StatsSumOfAdapters ==
    call.op = "stats" =>
       LET read == scrapers \ call.failing
       IN  /\ call.result.total_requests = SumOver(call.requests, read)
           /\ call.result.total_properties = SumOver(call.found, read)
           /\ call.result.total_errors = SumOver(call.errors, read)
           /\ DOMAIN call.result.by_source = read
           /\ \A a \in read :
                 call.result.by_source[a] = ReportedBy(call, a)

\* Statistics were asked of two adapters that both reported, after calls
\* that left the coordinator's own counters above zero; the totals are
\* the adapters' sums.
StatsSumOfAdaptersWitness ==
    /\ call.op = "stats"
    /\ scrapers = Adapters
    /\ call.failing = {}
    /\ call.coordinator.total_requests > 0
    /\ call.coordinator.total_errors > 0
    /\ call.errors = [a \in Adapters |-> IF a = "zap" THEN 1 ELSE 0]
    /\ call.result.total_errors = 1
    /\ call.result.total_requests > 0

\* Whether a record was built by a generator, not taken from a page.
Synthesized(prop) ==
    \/ \E i \in DOMAIN SampleIds : prop.id = SampleIds[i]
    \/ \E i \in DOMAIN IntelligentIds : prop.id = IntelligentIds[i]

\* C17: in every list returned by scrape_properties or
\* scrape_properties_fast, each record that was synthesized carries the
\* flag market_based, which no record taken from a page carries.
FallbackRecordsFlagged ==
    call.op \in {"acquire", "fast"} =>
       \A i \in DOMAIN call.result :
          Synthesized(call.result[i]) <=> call.result[i].market_based

\* A list of records holds a synthesized one.
HoldsSynthesized(props) == \E i \in DOMAIN props : Synthesized(props[i])

\* C30: synthesized records are returned by scrape_properties_fast only,
\* and straight away: a call that returns one has saved nothing and
\* written nothing to the cache, no cached list holds one, and
\* scrape_properties never returns one.
SynthesisOnlyReturned ==
    /\ \A key \in DOMAIN cache : ~HoldsSynthesized(cache[key])
    /\ call.op = "acquire" => ~HoldsSynthesized(call.result)
    /\ (call.op = "fast" /\ HoldsSynthesized(call.result)) =>
          (call.save_calls = 0 /\ ~call.cache_written)

(***************************************************************************)
(*                 CACHE KEY (_generate_cache_key)                         *)
(***************************************************************************)

\* The fields of a query and their place in the order of Python strings.
KeyFields == {"city", "page", "state"}
FieldRank(f) == CASE f = "city" -> 1 [] f = "page" -> 2 [] OTHER -> 3

\* The values a field can have: a value is written into the key by repr,
\* which tells the integer 1 from the string '1'.
FieldValues(f) ==
    CASE f = "city" -> {StrValue(1), StrValue(2)}
      [] f = "page" -> {IntValue(1), IntValue(2), StrValue(1)}
      [] OTHER -> {StrValue(3)}

Item(f, v) == [field |-> f, value |-> v]
Items == UNION {{Item(f, v) : v \in FieldValues(f)} : f \in KeyFields}

\* The dictionaries: lists of items in insertion order, no field twice.
Dicts ==
    {d \in ListsUpTo(Items, Cardinality(KeyFields)) :
        \A i, j \in DOMAIN d : d[i].field = d[j].field => i = j}

\* The values of enabled_scrapers: lists of adapter names as configured.
AdapterRank == [a \in Adapters |-> IF a = "vivareal" THEN 1 ELSE 2]
EnabledLists ==
    {<<"zap">>, <<"vivareal">>, <<"zap", "vivareal">>,
     <<"vivareal", "zap">>, <<"zap", "zap">>}

\* sorted(): insertion of x into a list sorted by the rank Rank[x].
RECURSIVE InsertSorted(_, _, _)
InsertSorted(x, sorted, Rank) ==
    IF sorted = <<>> THEN <<x>>
    ELSE IF Rank[x] < Rank[Head(sorted)] THEN <<x>> \o sorted
    ELSE <<Head(sorted)>> \o InsertSorted(x, Tail(sorted), Rank)

RECURSIVE SortedBy(_, _)
SortedBy(list, Rank) ==
    IF list = <<>> THEN <<>>
    ELSE InsertSorted(Head(list), SortedBy(Tail(list), Rank), Rank)

ItemRank == [item \in Items |-> FieldRank(item.field)]

\* sorted(search_params.items()), taken to leave the insertion order.
SortedParamsUnsorted(search_params) == search_params
\* sorted(search_params.items())
SortedParams(search_params) == SortedBy(search_params, ItemRank)

\* ','.join(sorted(self.enabled_scrapers)), as the list of the names joined.
ScrapersStr(enabled_scrapers) == SortedBy(enabled_scrapers, AdapterRank)

\* ScraperCoordinator._generate_cache_key: the digest of key_data, two
\* digests being equal when the data are.
CacheKey(search_params, enabled_scrapers) ==
    <<SortedParams(search_params), ScrapersStr(enabled_scrapers)>>

KeyInit ==
    /\ ck_params \in Dicts \X Dicts
    /\ ck_enabled \in EnabledLists \X EnabledLists
    /\ ck_keys = <<>>
    /\ ck_pc = "ready"

\* _generate_cache_key called on each of the two queries.
ApplyGenerateCacheKey ==
    /\ ck_pc = "ready"
    /\ ck_keys' = <<CacheKey(ck_params[1], ck_enabled[1]),
                    CacheKey(ck_params[2], ck_enabled[2])>>
    /\ ck_pc' = "returned"
    /\ UNCHANGED <<ck_params, ck_enabled>>
    /\ KeyFrame

KeyNext == ApplyGenerateCacheKey

\* The field/value pairs of a dictionary and the names of a list.
PairsOf(d) == {d[i] : i \in DOMAIN d}
NamesOf(l) == {l[i] : i \in DOMAIN l}

\* Whether two lists hold the same elements the same number of times.
Occurrences(l, x) == Cardinality({i \in DOMAIN l : l[i] = x})
SameUpToOrder(l, m) ==
    \A x \in NamesOf(l) \cup NamesOf(m) : Occurrences(l, x) = Occurrences(m, x)

\* C13: the keys of two queries with the same field/value pairs are equal
\* whatever the insertion order of the pairs and the order of the adapter
\* names configured; the keys differ when the queries differ in the value
\* of a field (page included) or in a field present, and when the sets of
\* enabled adapter names differ.
CacheKeyDeterminism ==
    ck_pc = "returned" =>
        /\ (PairsOf(ck_params[1]) = PairsOf(ck_params[2])
              /\ SameUpToOrder(ck_enabled[1], ck_enabled[2]))
           => ck_keys[1] = ck_keys[2]
        /\ PairsOf(ck_params[1]) # PairsOf(ck_params[2])
           => ck_keys[1] # ck_keys[2]
        /\ NamesOf(ck_enabled[1]) # NamesOf(ck_enabled[2])
           => ck_keys[1] # ck_keys[2]

\* Two queries with the same three pairs inserted in different orders,
\* under the same adapters configured in different orders, got one key.
CacheKeyDeterminismWitness ==
    /\ ck_pc = "returned"
    /\ Len(ck_params[1]) = 3
    /\ ck_params[1] # ck_params[2]
    /\ PairsOf(ck_params[1]) = PairsOf(ck_params[2])
    /\ ck_enabled = <<<<"zap", "vivareal">>, <<"vivareal", "zap">>>>
    /\ ck_keys[1] = ck_keys[2]

\* The HTTP attempts the adapters of a call made during it.
AttemptsDuring(c) ==
    [a \in c.invoked |-> requests_made'[a] - requests_made[a]]

\* C29: an acquire call adds to total_requests the HTTP attempts its
\* adapters made during that call, each once; what they made in earlier
\* calls is not added again.  Stated for calls that run the adapters one
\* after the other and in which every adapter returns.
RequestsCountedOnce ==
    [][(/\ n_calls' = n_calls + 1
        /\ call'.op = "acquire"
        /\ ~call'.parallel
        /\ call'.invoked # {}
        /\ RaisedIn(call') = {}
        /\ ~call'.cache_failed)
       => stats'.total_requests = stats.total_requests
             + SumOver(AttemptsDuring(call'), call'.invoked)]_vars

\* The call saved its records and one save at least failed.
SaveFailed(c) ==
    /\ c.op = "acquire"
    /\ \E i \in DOMAIN c.save_results : c.save_results[i] # "saved"

\* What a call's adapters' records come to, merged and enriched.
EnrichedOf(c) ==
    EnrichProperties(RemoveDuplicates(Collect(c.collected, c.outcome)))

\* C28: when the save of a record fails, by raising or by returning
\* false, a save is attempted for every record all the same, the result is
\* written to the cache when use_cache is set, the call returns the whole
\* merged and enriched list without raising, and no error is counted
\* beyond those of the adapters that failed (the cache itself working).
BestEffortPersistence ==
    [][(/\ n_calls' = n_calls + 1
        /\ SaveFailed(call')
        /\ ~call'.cache_failed)
       => /\ call'.save_calls = Len(EnrichedOf(call'))
          /\ call'.saved_count =
                Cardinality({i \in DOMAIN call'.save_results :
                                call'.save_results[i] = "saved"})
          /\ call'.cache_written = call'.use_cache
          /\ call'.use_cache =>
                /\ GenerateCacheKey(call'.query) \in DOMAIN cache'
                /\ cache'[GenerateCacheKey(call'.query)] = EnrichedOf(call')
          /\ ~call'.raised
          /\ call'.result = EnrichedOf(call')
          /\ stats'.total_errors = stats.total_errors
                + 2 * Cardinality(RaisedIn(call'))]_vars

\* C28 witness: of three records merged from two adapters the save of the
\* first raised and that of the second returned false; the third was
\* saved, and the call cached and returned all three.
BestEffortPersistenceWitness ==
    /\ SaveFailed(call)
    /\ call.save_results = <<"raises", "false", "saved">>
    /\ call.save_calls = 3
    /\ call.saved_count = 1
    /\ call.use_cache /\ call.cache_written
    /\ Len(call.result) = 3

(***************************************************************************)
(*               ACQUISITION COORDINATOR: SHUTDOWN                         *)
(***************************************************************************)

\* Number of calls of close() on one coordinator.
MaxCloseCalls == 2

\* The storage connection (db_handler) and the session of a fast adapter
\* (ProductionZapScraper.fast_scraper.session), next to the adapters'
\* sessions, which go by the adapters' names.
DbHandler == "db_handler"
FastSession(a) == IF a = "zap" THEN "fast_zap" ELSE "fast_vivareal"

\* Everything the coordinator holds that has a connection to release.
HeldResources ==
    scrapers \cup {FastSession(a) : a \in fast_scrapers} \cup {DbHandler}

\* What close() calls close() on: the adapters of self.scrapers, then
\* db_handler.
CloseTargets == scrapers \cup {DbHandler}

\* ScraperCoordinator.close() when close() of the resources in `failing`
\* raises.  An adapter's exception is caught inside the loop, that of
\* db_handler by the outer except: close() itself returns.
Close(failing) ==
    /\ close_calls < MaxCloseCalls
    /\ close_calls' = close_calls + 1
    /\ closed' = closed \cup (CloseTargets \ failing)
    /\ close_log' = [invoked |-> CloseTargets,
                     failing |-> failing \cap CloseTargets,
                     raised |-> FALSE]
    /\ CloseFrame

CloseNext ==
    \E failing \in SUBSET (Adapters \cup {DbHandler}) : Close(failing)

\* C19: after a call of close(), close() was invoked on every adapter the
\* coordinator holds, the fast adapters included, and on the storage
\* connection; whatever close() of some of them raised, close() itself
\* did not raise and all the others are closed; after a second call
\* nothing that was closed is open again.
CloseReleasesEverything ==
    close_calls > 0 =>
       /\ close_log.invoked = HeldResources
       /\ ~close_log.raised
       /\ HeldResources \ close_log.failing \subseteq closed

(***************************************************************************)
(*               ACQUISITION COORDINATOR: THE DISPATCH STEP                *)
(***************************************************************************)

\* Number of dispatches on one coordinator.
MaxDispatches == 2

\* The order of self.scrapers.items().
DispatchOrder == <<"zap", "vivareal">>
Position(a) == CHOOSE i \in DOMAIN DispatchOrder : DispatchOrder[i] = a

DispatchInit ==
    /\ sp_pc = "idle"
    /\ sp_parallel = FALSE
    /\ sp_futures = [a \in Adapters |-> "pending"]
    /\ all_properties = <<>>
    /\ sp_calls = 0

\* scrape_properties gets to _scrape_parallel or _scrape_sequential.
Dispatch(parallel) ==
    /\ sp_pc \in {"idle", "returned"}
    /\ sp_calls < MaxDispatches
    /\ sp_calls' = sp_calls + 1
    /\ sp_pc' = "collecting"
    /\ sp_parallel' = parallel
    /\ sp_futures' = [a \in Adapters |-> "pending"]
    /\ all_properties' = <<>>
    /\ DispatchFrame

\* _scrape_with_scraper calls scraper.scrape_properties: in a worker
\* thread as soon as submitted, or in the loop of _scrape_sequential when
\* the adapters before it are dealt with.  The call is one that comes to
\* an end, or one that never does.
StartCall(a, hangs) ==
    /\ sp_pc = "collecting"
    /\ sp_futures[a] = "pending"
    /\ sp_parallel \/ \A b \in Adapters :
                          Position(b) < Position(a) => sp_futures[b] = "taken"
    /\ sp_futures' = [sp_futures EXCEPT
                        ![a] = IF hangs THEN "hung" ELSE "running"]
    /\ UNCHANGED <<sp_pc, sp_parallel, all_properties, sp_calls>>
    /\ DispatchFrame

\* The adapter's call comes to its end: it returns or raises.
Complete(a, raises) ==
    /\ sp_pc = "collecting"
    /\ sp_futures[a] = "running"
    /\ sp_futures' = [sp_futures EXCEPT
                        ![a] = IF raises THEN "raised" ELSE "returned"]
    /\ UNCHANGED <<sp_pc, sp_parallel, all_properties, sp_calls>>
    /\ DispatchFrame

\* The body of the loop, for a call that has ended: as_completed yields
\* its future, or the call made by _scrape_sequential returns or raises.
\* Neither waits with a timeout.
TakeResult(a) ==
    /\ sp_pc = "collecting"
    /\ sp_futures[a] \in {"returned", "raised"}
    /\ sp_futures' = [sp_futures EXCEPT ![a] = "taken"]
    /\ all_properties' = IF sp_futures[a] = "returned"
                         THEN Append(all_properties, a)
                         ELSE all_properties
    /\ UNCHANGED <<sp_pc, sp_parallel, sp_calls>>
    /\ DispatchFrame

\* The loop is over, every call having been dealt with, and the dispatch
\* returns all_properties.
DispatchReturn ==
    /\ sp_pc = "collecting"
    /\ \A a \in Adapters : sp_futures[a] = "taken"
    /\ sp_pc' = "returned"
    /\ UNCHANGED <<sp_parallel, sp_futures, all_properties, sp_calls>>
    /\ DispatchFrame

\* The steps of a dispatch under way.
DispatchProgress ==
    \/ \E a \in Adapters, hangs \in BOOLEAN : StartCall(a, hangs)
    \/ \E a \in Adapters, raises \in BOOLEAN : Complete(a, raises)
    \/ \E a \in Adapters : TakeResult(a)
    \/ DispatchReturn

DispatchNext ==
    \/ \E parallel \in BOOLEAN : Dispatch(parallel)
    \/ \E a \in Adapters, hangs \in BOOLEAN : StartCall(a, hangs)
    \/ \E a \in Adapters, raises \in BOOLEAN : Complete(a, raises)
    \/ \E a \in Adapters : TakeResult(a)
    \/ DispatchReturn

\* C25: a dispatch under way comes to its end, whatever the adapters'
\* calls do, one that never completes included.
DispatchEventuallyReturns ==
    (sp_pc = "collecting") ~> (sp_pc = "returned")

(***************************************************************************)
(*                           SPECIFICATIONS                                *)
(***************************************************************************)

\* The state of a component no call has touched yet.
RetryPinned ==
    /\ max_retries = MaxRetriesBound
    /\ r_pc = "idle"
    /\ attempt = 0
    /\ timeout_count = 0
    /\ trace = <<>>
    /\ backoffs = 0
    /\ scraper_stats = [requests_made |-> 0, errors_count |-> 0]
    /\ calls_started = 0

LimiterPinned ==
    /\ now = 0
    /\ requests = [k \in WindowKeys |-> <<>>]
    /\ default_limit = ParseLimit(<<48, "day">>)
    /\ endpoint_limits = [e \in AllEndpoints |->
                            CASE e = SearchEndpoint -> ParseLimit(<<1, "hour">>)
                              [] e = AnalysisEndpoint -> ParseLimit(<<1, "hour">>)
                              [] OTHER -> NoLimit]
    /\ recorded = [k \in WindowKeys |-> <<>>]

MiddlewarePinned ==
    /\ usage_timestamps = [k \in UsageKeys |-> <<>>]
    /\ usage_count = [k \in UsageKeys |-> 0]
    /\ inflight = {}
    /\ mw_done = [id |-> 0]
    /\ n_requests = 0

CoordPinned ==
    /\ scrapers = Adapters
    /\ fast_scrapers = {"zap"}
    /\ cache = <<>>
    /\ stats = [total_requests |-> 0, total_properties |-> 0,
                total_errors |-> 0]
    /\ requests_made = [a \in Adapters |-> 0]
    /\ call = NoCall
    /\ n_calls = 0

DedupPinned ==
    /\ properties = <<>>
    /\ unique_properties = <<>>
    /\ dedup_pc = "ready"

KeyPinned ==
    /\ ck_params = <<<<>>, <<>>>>
    /\ ck_enabled = <<<<>>, <<>>>>
    /\ ck_keys = <<>>
    /\ ck_pc = "ready"

ClosePinned ==
    /\ closed = {}
    /\ close_log = [invoked |-> {}]
    /\ close_calls = 0

DispatchPinned ==
    /\ sp_pc = "idle"
    /\ sp_parallel = FALSE
    /\ sp_futures = [a \in {} |-> "pending"]
    /\ all_properties = <<>>
    /\ sp_calls = 0

\* One scraper's HTTP client under every sequence of transport outcomes.
SpecRetryInit ==
    /\ RetryInit
    /\ LimiterPinned /\ MiddlewarePinned /\ CoordPinned /\ DedupPinned
    /\ KeyPinned
    /\ ClosePinned
    /\ DispatchPinned
SpecRetry == SpecRetryInit /\ [][RetryNext]_vars

\* The rate limiter driven through its own interface.
SpecLimiterInit ==
    /\ LimiterInit
    /\ RetryPinned /\ MiddlewarePinned /\ CoordPinned /\ DedupPinned
    /\ KeyPinned
    /\ ClosePinned
    /\ DispatchPinned
SpecLimiter == SpecLimiterInit /\ [][LimiterNext]_vars

\* Requests passing through the security middleware, up to MaxInFlight of
\* them at a time, and calls of views wrapped by rate_limit_decorator.
SpecMiddlewareInit ==
    /\ MiddlewareInit /\ RetryPinned /\ CoordPinned /\ DedupPinned
    /\ KeyPinned
    /\ ClosePinned
    /\ DispatchPinned
SpecMiddleware == SpecMiddlewareInit /\ [][MiddlewareNext]_vars

SpecPermission == SpecMiddlewareInit /\ [][PermissionNext]_vars

SpecBypass == SpecMiddlewareInit /\ [][BypassNext]_vars

SpecConcurrent == SpecMiddlewareInit /\ [][ConcurrentNext]_vars

\* remove_duplicates applied to every list of up to MaxLen records.
SpecDedupInit ==
    /\ DedupInit
    /\ RetryPinned /\ LimiterPinned /\ MiddlewarePinned /\ CoordPinned
    /\ KeyPinned
    /\ ClosePinned
    /\ DispatchPinned
SpecDedup == SpecDedupInit /\ [][DedupNext]_vars

\* The coordinator under every sequence of up to MaxCoordCalls calls of its
\* two acquisition paths, with adapters, database and cache that can fail.
SpecCoordInit ==
    /\ CoordInit
    /\ RetryPinned /\ LimiterPinned /\ MiddlewarePinned /\ DedupPinned
    /\ KeyPinned
    /\ ClosePinned
    /\ DispatchPinned
SpecCoord == SpecCoordInit /\ [][CoordNext]_vars

\* The coordinator under calls of scrape_properties alone, which do not
\* look at the fast adapters.
SpecAcquireInit == SpecCoordInit /\ fast_scrapers = {"zap"}
SpecAcquire == SpecAcquireInit /\ [][AcquireNext]_vars

\* _generate_cache_key applied to every two queries of up to three fields
\* under every two lists of enabled adapters.
SpecKeyInit ==
    /\ KeyInit
    /\ RetryPinned /\ LimiterPinned /\ MiddlewarePinned /\ CoordPinned
    /\ DedupPinned
    /\ ClosePinned
    /\ DispatchPinned
SpecKey == SpecKeyInit /\ [][KeyNext]_vars

\* The coordinator under calls of scrape_properties with valid and
\* invalid queries, the cache filled by the fast path.
SpecValidateInit == SpecCoordInit /\ fast_scrapers = {"zap"}
SpecValidate == SpecValidateInit /\ [][ValidateNext]_vars

\* The coordinator, as constructed, under calls of close() with
\* adapters and a storage connection whose close() can raise.
SpecClose == SpecCoordInit /\ [][CloseNext]_vars

\* The dispatch of scrape_properties step by step, with adapter calls
\* that return, raise or never complete; the threads and the loop are
\* scheduled fairly.
SpecDispatchInit ==
    /\ DispatchInit
    /\ RetryPinned /\ LimiterPinned /\ MiddlewarePinned /\ CoordPinned
    /\ DedupPinned /\ KeyPinned /\ ClosePinned
SpecDispatchLive ==
    SpecDispatchInit /\ [][DispatchNext]_vars /\ WF_vars(DispatchProgress)

\* Acquire calls on a coordinator whose storage can fail to save.
SpecPersistInit == SpecAcquireInit /\ scrapers = Adapters
SpecPersist == SpecPersistInit /\ [][PersistNext]_vars

SpecStatsInit == SpecCoordInit /\ fast_scrapers = {"zap"}
SpecStats == SpecStatsInit /\ [][StatsNext]_vars

SpecSampleInit == SpecCoordInit /\ scrapers = Adapters /\ fast_scrapers = {"zap"}
SpecSample == SpecSampleInit /\ [][SampleNext]_vars

====
